---- MODULE Spec2Model ----
(***************************************************************************)
(* A model of the sprite core of arcade-lib (src/src/arcade.c): sprite     *)
(* kinematics, AABB collision, the animation controller, sprite groups,    *)
(* the compositor, the lifetime of pixel buffers, key input and the frame  *)
(* counter.                                                                *)
(*                                                                         *)
(* Numbers.  Positions, sizes, velocities and gravity are C `float`s.  A   *)
(* float is modelled as an integer number of units that is representable   *)
(* with a significand of MantBits bits; every float operation computes the *)
(* exact result and rounds it to the nearest representable value, ties to  *)
(* even (IEEE-754 round-to-nearest-even).  NaN and infinities are not      *)
(* modelled: all inputs are finite and the bounds keep results finite.     *)
(*                                                                         *)
(* Pointers.  A pointer to a sprite is 0 (NULL) or the index of the sprite *)
(* in the caller's array `sprites` (rect sprites) or `images` (image       *)
(* sprites).                                                               *)
(***************************************************************************)
EXTENDS Integers, Sequences, FiniteSets, TLC

VARIABLES
    sprites,        \* caller's ArcadeSprite objects, by address 1..NSprites
    images,         \* caller's ArcadeImageSprite objects, by address 1..NSprites
    anim,           \* caller's ArcadeAnimatedSprite
    group,          \* caller's SpriteGroup
    op,             \* name of the last API call ("none" before the first)
    argp,           \* first pointer argument of the last call
    argq,           \* second pointer argument of the last call
    gravity,        \* gravity argument of the last move call
    window_height,  \* window_height argument of the last move call
    ret,            \* return value of the last call that returns one
    nmoves,         \* history: live arcade_move_animated_sprite calls since creation
    appended,       \* history: (sprite, type) pairs passed to add since init
    oob,            \* history: a group slot at an index >= capacity was written
    cap0,           \* history: capacity passed to the last arcade_init_group
    heap,           \* identities of the malloc'ed blocks not yet freed
    ub,             \* the program has executed undefined behaviour
    state,          \* the library's ArcadeState: the surface and its background
    pixbuf,         \* contents of the sprites' pixel buffers, by block identity
    scene,          \* history: the (sprite, type) array of the last render call
    before,         \* history: state.pixels when the last render call began
    loaded,         \* history: pixel buffers the last create call allocated
    key_states,     \* key_states[256]: 1 while the key is down, else 0
    last_key_states, \* last_key_states[256]: key state at the last single-press poll
    global_frame_counter, \* frames processed by arcade_update
    running,        \* state.running
    pending,        \* the window system's queue of events not yet processed
    key_val,        \* key argument of the last key query
    text,           \* text argument of the last text call (NULL or a string)
    blink_interval, \* blink_interval argument of the last blinking text call
    drawn,          \* history: the last blinking text call drew the text
    prev_key_states \* history: key_states when the last arcade_update began

vars == <<sprites, images, anim, group, op, argp, argq, gravity,
          window_height, ret, nmoves, appended, oob, cap0, heap, ub,
          state, pixbuf, scene, before, loaded, key_states, last_key_states,
          global_frame_counter, running, pending, key_val, text,
          blink_interval, drawn, prev_key_states>>

kinVars   == <<sprites, images>>
animVars  == <<anim, nmoves>>
groupVars == <<group, appended, oob, cap0>>
memVars   == <<heap, ub>>
gfxVars   == <<state, pixbuf, scene, before>>
inputVars == <<key_states, last_key_states, global_frame_counter, running,
               pending, key_val, text, blink_interval, drawn, prev_key_states>>

(***************************************************************************)
(* Bounds                                                                  *)
(***************************************************************************)
MantBits == 3        \* bits of the float significand (binary32 has 24)
NSprites == 2        \* sprite objects of each variant the caller owns

NULL == 0
SPRITE_COLOR == 0
SPRITE_IMAGE == 1

(***************************************************************************)
(* float arithmetic                                                        *)
(***************************************************************************)
Abs(v) == IF v < 0 THEN -v ELSE v

RECURSIVE Pow2(_)
Pow2(n) == IF n = 0 THEN 1 ELSE 2 * Pow2(n - 1)

\* spacing of the representable values around magnitude a
RECURSIVE Ulp(_)
Ulp(a) == IF a < Pow2(MantBits) THEN 1 ELSE 2 * Ulp(a \div 2)

\* the representable value nearest to the exact value v, ties to even
FRound(v) ==
    LET a  == Abs(v)
        s  == Ulp(a)
        q  == a \div s
        lo == q * s
        r  == a - lo
        m  == IF 2 * r < s THEN lo
              ELSE IF 2 * r > s THEN lo + s
              ELSE IF q % 2 = 0 THEN lo ELSE lo + s
    IN  IF v < 0 THEN -m ELSE m

FAdd(a, b) == FRound(a + b)
FSub(a, b) == FRound(a - b)
IntToFloat(i) == FRound(i)

\* (int)f for a float f: truncation toward zero.  The floats of the model are
\* whole numbers, which the conversion leaves as they are.
FloatToInt(f) == IF f < 0 THEN -((-f) \div 1) ELSE f \div 1

(***************************************************************************)
(* Data structures (arcade.h)                                              *)
(***************************************************************************)
\* an ArcadeSprite value
MkSprite(x, y, w, h, vy, vx, color, active) ==
    [x |-> x, y |-> y, width |-> w, height |-> h, vy |-> vy, vx |-> vx,
     color |-> color, active |-> active]

\* an ArcadeImageSprite value; pixels is NULL or the identity of a buffer
MkImage(x, y, w, h, vy, vx, pixels, iw, ih, active) ==
    [x |-> x, y |-> y, width |-> w, height |-> h, vy |-> vy, vx |-> vx,
     pixels |-> pixels, image_width |-> iw, image_height |-> ih,
     active |-> active]

\* sprites the caller owns and does not use
IdleSprite == MkSprite(0, 0, 2, 2, 0, 0, 1, 0)
IdleImage  == MkImage(0, 0, 2, 2, 0, 0, NULL, 0, 0, 0)

\* ArcadeAnimatedSprite anim = {0}; frames_ptr is the pointer `frames` (NULL or
\* the identity of the malloc'ed array) and frames is the content of that
\* array, frames[i + 1] modelling the C element frames[i]
EmptyAnim ==
    [frames |-> <<>>, frames_ptr |-> NULL, frame_count |-> 0,
     current_frame |-> 0, frame_interval |-> 0, frame_counter |-> 0]

\* a SpriteGroup the caller has declared and not yet initialised.  sprites and
\* types are the contents of the two arrays (slot i + 1 modelling the C
\* element i), sprites_ptr and types_ptr the pointers to them; init tells that
\* arcade_init_group has written the fields (before, they are indeterminate)
NoGroup ==
    [sprites |-> <<>>, types |-> <<>>, sprites_ptr |-> NULL, types_ptr |-> NULL,
     count |-> 0, capacity |-> 0, init |-> FALSE]

\* the content of an array slot that was allocated and never written
Garbage == [garbage |-> TRUE]

\* static ArcadeState state = {0}: no window and no surface yet.  pixels is
\* the content of the surface buffer, pixels[i] the C element i
NoWindow == [pixels |-> <<>>, width |-> 0, height |-> 0, bg_color |-> 0]

\* static int key_states[256] = {0}, last_key_states[256] = {0}
NoKeys == [i \in 0..255 |-> 0]

\* the statics of the input and timing code and the event queue when no
\* event has arrived and no frame was processed: r is state.running, 0
\* before arcade_init and 1 after it
InitStatics(r) ==
    /\ key_states = NoKeys
    /\ last_key_states = NoKeys
    /\ global_frame_counter = 0
    /\ running = r
    /\ pending = <<>>
    /\ key_val = 0
    /\ text = NULL
    /\ blink_interval = 0
    /\ drawn = FALSE
    /\ prev_key_states = NoKeys

(***************************************************************************)
(* Sprite kinematics                                                       *)
(***************************************************************************)
\* move_sprite without the floor clamp
move_sprite_no_floor(s, g, wh) ==
    IF s.active = 0 THEN s
    ELSE
      LET vy1 == FAdd(s.vy, g)
          y1  == FAdd(s.y, vy1)
          x1  == FAdd(s.x, s.vx)
      IN  [s EXCEPT !.vy = IF y1 < 0 THEN 0 ELSE vy1,
                    !.y = IF y1 < 0 THEN 0 ELSE y1, !.x = x1]

\* move_sprite whose floor clamp forgets to stop the sprite (vy keeps its value)
move_sprite_bounce(s, g, wh) ==
    IF s.active = 0 THEN s
    ELSE
      LET vy1 == FAdd(s.vy, g)
          y1  == FAdd(s.y, vy1)
          x1  == FAdd(s.x, s.vx)
          y2  == IF y1 < 0 THEN 0 ELSE y1
          vy2 == IF y1 < 0 THEN 0 ELSE vy1
          lim == FSub(IntToFloat(wh), s.height)
      IN  [s EXCEPT !.vy = vy2, !.y = IF y2 > lim THEN lim ELSE y2, !.x = x1]

\* the body of move_sprite on the sprite value s (sprite != NULL)
move_sprite(s, g, wh) ==
    IF s.active = 0 THEN s
    ELSE
      LET vy1 == FAdd(s.vy, g)
          y1  == FAdd(s.y, vy1)
          x1  == FAdd(s.x, s.vx)
          y2  == IF y1 < 0 THEN 0 ELSE y1
          vy2 == IF y1 < 0 THEN 0 ELSE vy1
          lim == FSub(IntToFloat(wh), s.height)
          y3  == IF y2 > lim THEN lim ELSE y2
          vy3 == IF y2 > lim THEN 0 ELSE vy2
      IN  [s EXCEPT !.vy = vy3, !.y = y3, !.x = x1]

\* arcade_move_image_sprite that moves y by the velocity before gravity is added
move_image_sprite_old_vy(s, g, wh) ==
    IF s.active = 0 THEN s
    ELSE
      LET vy1 == FAdd(s.vy, g)
          y1  == FAdd(s.y, s.vy)
          x1  == FAdd(s.x, s.vx)
          y2  == IF y1 < 0 THEN 0 ELSE y1
          vy2 == IF y1 < 0 THEN 0 ELSE vy1
          lim == FSub(IntToFloat(wh), s.height)
          y3  == IF y2 > lim THEN lim ELSE y2
          vy3 == IF y2 > lim THEN 0 ELSE vy2
      IN  [s EXCEPT !.vy = vy3, !.y = y3, !.x = x1]

\* the body of arcade_move_image_sprite on the image sprite value s
move_image_sprite(s, g, wh) ==
    IF s.active = 0 THEN s
    ELSE
      LET vy1 == FAdd(s.vy, g)
          y1  == FAdd(s.y, vy1)
          x1  == FAdd(s.x, s.vx)
          y2  == IF y1 < 0 THEN 0 ELSE y1
          vy2 == IF y1 < 0 THEN 0 ELSE vy1
          lim == FSub(IntToFloat(wh), s.height)
          y3  == IF y2 > lim THEN lim ELSE y2
          vy3 == IF y2 > lim THEN 0 ELSE vy2
      IN  [s EXCEPT !.vy = vy3, !.y = y3, !.x = x1]

\* arcade_move_sprite on a sprite the group refers to instead of holding a copy
\* of: the move shows in every group entry made from the sprite
arcade_move_sprite_shared(p, g, wh) ==
    /\ sprites' = IF p = NULL THEN sprites
                  ELSE [sprites EXCEPT ![p] = move_sprite(@, g, wh)]
    /\ group' = IF p = NULL THEN group
                ELSE [group EXCEPT !.sprites =
                        [i \in 1..Len(group.sprites) |->
                           IF group.sprites[i] = sprites[p]
                             THEN move_sprite(sprites[p], g, wh)
                             ELSE group.sprites[i]]]
    /\ op' = "arcade_move_sprite"
    /\ UNCHANGED inputVars
    /\ UNCHANGED <<gfxVars, loaded>>
    /\ argp' = p
    /\ gravity' = g
    /\ window_height' = wh
    /\ UNCHANGED <<images, animVars, appended, oob, cap0, memVars, argq, ret>>

arcade_move_sprite(p, g, wh) ==
    /\ sprites' = IF p = NULL THEN sprites
                  ELSE [sprites EXCEPT ![p] = move_sprite(@, g, wh)]
    /\ op' = "arcade_move_sprite"
    /\ UNCHANGED inputVars
    /\ UNCHANGED <<gfxVars, loaded>>
    /\ argp' = p
    /\ gravity' = g
    /\ window_height' = wh
    /\ UNCHANGED <<images, animVars, groupVars, memVars, argq, ret>>

arcade_move_image_sprite(p, g, wh) ==
    /\ images' = IF p = NULL THEN images
                 ELSE [images EXCEPT ![p] = move_image_sprite(@, g, wh)]
    /\ op' = "arcade_move_image_sprite"
    /\ UNCHANGED inputVars
    /\ UNCHANGED <<gfxVars, loaded>>
    /\ argp' = p
    /\ gravity' = g
    /\ window_height' = wh
    /\ UNCHANGED <<sprites, animVars, groupVars, memVars, argq, ret>>

(***************************************************************************)
(* Collision oracle                                                        *)
(***************************************************************************)
\* check_collision whose first comparison accepts a shared edge
check_collision_touch(a, b) ==
    IF a = NULL \/ b = NULL THEN 0
    ELSE IF sprites[a].active = 0 \/ sprites[b].active = 0 THEN 0
    ELSE IF /\ sprites[a].x <= FAdd(sprites[b].x, sprites[b].width)
            /\ FAdd(sprites[a].x, sprites[a].width) > sprites[b].x
            /\ sprites[a].y < FAdd(sprites[b].y, sprites[b].height)
            /\ FAdd(sprites[a].y, sprites[a].height) > sprites[b].y
         THEN 1 ELSE 0

\* check_collision(a, b), a and b pointers to rect sprites
check_collision(a, b) ==
    IF a = NULL \/ b = NULL THEN 0
    ELSE IF sprites[a].active = 0 \/ sprites[b].active = 0 THEN 0
    ELSE IF /\ sprites[a].x < FAdd(sprites[b].x, sprites[b].width)
            /\ FAdd(sprites[a].x, sprites[a].width) > sprites[b].x
            /\ sprites[a].y < FAdd(sprites[b].y, sprites[b].height)
            /\ FAdd(sprites[a].y, sprites[a].height) > sprites[b].y
         THEN 1 ELSE 0

\* the value arcade_check_collision(a, b) returns
check_collision_ret(a, b) ==
    IF a = NULL \/ b = NULL THEN 0 ELSE check_collision(a, b)

\* arcade_check_image_collision that tests only the first sprite's active flag
image_collision_one_flag(A, B) ==
    IF A.active = 0 THEN 0
    ELSE IF /\ A.x < FAdd(B.x, B.width)
            /\ FAdd(A.x, A.width) > B.x
            /\ A.y < FAdd(B.y, B.height)
            /\ FAdd(A.y, A.height) > B.y
         THEN 1 ELSE 0

\* arcade_check_image_collision on two image sprite objects A and B (the
\* pointers a and b are not NULL)
image_collision(A, B) ==
    IF A.active = 0 \/ B.active = 0 THEN 0
    ELSE IF /\ A.x < FAdd(B.x, B.width)
            /\ FAdd(A.x, A.width) > B.x
            /\ A.y < FAdd(B.y, B.height)
            /\ FAdd(A.y, A.height) > B.y
         THEN 1 ELSE 0

\* the value arcade_check_image_collision(a, b) returns
check_image_collision_ret(a, b) ==
    IF a = NULL \/ b = NULL THEN 0 ELSE image_collision(images[a], images[b])

\* arcade_check_animated_collision that forgets the frames[0].active test
check_animated_collision_no_master(an, other) ==
    IF an = NULL \/ other = NULL THEN 0
    ELSE IF images[other].active = 0 THEN 0
    ELSE image_collision(anim.frames[anim.current_frame + 1], images[other])

\* the value arcade_check_animated_collision(an, other) returns when the
\* frames array exists; an is NULL or 1, the address of the animated sprite
check_animated_collision_ret(an, other) ==
    IF an = NULL \/ other = NULL THEN 0
    ELSE IF anim.frames[1].active = 0 \/ images[other].active = 0 THEN 0
    ELSE image_collision(anim.frames[anim.current_frame + 1], images[other])

arcade_check_collision(a, b) ==
    /\ ret' = check_collision_ret(a, b)
    /\ op' = "arcade_check_collision"
    /\ UNCHANGED inputVars
    /\ UNCHANGED <<gfxVars, loaded>>
    /\ argp' = a
    /\ argq' = b
    /\ UNCHANGED <<kinVars, animVars, groupVars, memVars, gravity, window_height>>

arcade_check_image_collision(a, b) ==
    /\ ret' = check_image_collision_ret(a, b)
    /\ op' = "arcade_check_image_collision"
    /\ UNCHANGED inputVars
    /\ UNCHANGED <<gfxVars, loaded>>
    /\ argp' = a
    /\ argq' = b
    /\ UNCHANGED <<kinVars, animVars, groupVars, memVars, gravity, window_height>>

\* with frames == NULL (an empty animated sprite) the test of
\* anim->frames[0].active reads through a null pointer: undefined behaviour
arcade_check_animated_collision(an, other) ==
    /\ IF an # NULL /\ other # NULL /\ anim.frames_ptr = NULL
         THEN ub' = TRUE /\ ret' \in {0, 1}
         ELSE ub' = ub /\ ret' = check_animated_collision_ret(an, other)
    /\ op' = "arcade_check_animated_collision"
    /\ UNCHANGED inputVars
    /\ UNCHANGED <<gfxVars, loaded>>
    /\ argp' = an
    /\ argq' = other
    /\ UNCHANGED <<kinVars, animVars, groupVars, heap, gravity, window_height>>

(***************************************************************************)
(* Image sprites and the animation controller                              *)
(***************************************************************************)
\* malloc: the identity of a block not in use (the smallest free one)
Malloc(h) ==
    CHOOSE n \in 1..(Cardinality(h) + 1) :
        n \notin h /\ \A k \in 1..(n - 1) : k \in h

\* what loading filenames[i] does: there is no filename, stbi_load fails, the
\* resize fails, malloc of the pixel buffer fails, or the image is loaded
LoadResults == {"ok", "null_filename", "load_fail", "resize_fail", "alloc_fail"}

\* the pixels of a decoded and resized file of w x h pixels (all opaque)
FileImage(w, h) == [i \in 0..(w * h - 1) |-> Pow2(24) + i + 1]

\* the memory, as far as the model follows it: the blocks allocated and the
\* contents of the pixel buffers among them
Bind(bufs, b, content) ==
    [k \in DOMAIN bufs \cup {b} |-> IF k = b THEN content ELSE bufs[k]]

Unbind(bufs, b) == [k \in DOMAIN bufs \ {b} |-> bufs[k]]

\* load_image_sprite(&sprite, filename, tw, th) for a non-NULL filename: the
\* sprite and the memory it leaves and the value it returns.  data is the
\* block stbi_load returns, resized the block of the resized image; both are
\* released on every path that allocated them.
load_image_sprite(sprite, tw, th, res, mem) ==
    IF res = "load_fail"
      THEN [sprite |-> sprite, mem |-> mem, ret |-> 1]
    ELSE
      LET data    == Malloc(mem.heap)
          resized == Malloc(mem.heap \cup {data})
          h2      == mem.heap \cup {data, resized}
          px      == Malloc(h2)
          sized   == [sprite EXCEPT !.image_width = tw, !.image_height = th]
      IN  IF res = "resize_fail"
            THEN [sprite |-> sprite,
                  mem |-> [mem EXCEPT !.heap = h2 \ {data, resized}],
                  ret |-> 1]
          ELSE IF res = "alloc_fail"
            THEN [sprite |-> [sized EXCEPT !.pixels = NULL],
                  mem |-> [mem EXCEPT !.heap = h2 \ {data, resized}],
                  ret |-> 1]
          ELSE [sprite |-> [sized EXCEPT !.pixels = px,
                                         !.width = IntToFloat(tw),
                                         !.height = IntToFloat(th),
                                         !.active = 1],
                mem |-> [heap |-> (h2 \cup {px}) \ {data, resized},
                         pixbuf |-> Bind(mem.pixbuf, px, FileImage(tw, th))],
                ret |-> 0]

\* arcade_create_image_sprite(x, y, w, h, filename): the sprite returned and
\* the memory left.  w and h are whole numbers, (int)w and (int)h.
create_image_sprite(x, y, w, h, res, mem) ==
    LET sprite == MkImage(x, y, 0, 0, 0, 0, NULL, 0, 0, 1)
        r      == load_image_sprite(sprite, FloatToInt(w), FloatToInt(h), res, mem)
    IN  IF res = "null_filename"
          THEN [sprite |-> sprite, mem |-> mem]
        ELSE IF r.ret # 0
          THEN [sprite |-> [r.sprite EXCEPT !.pixels = NULL], mem |-> r.mem]
        ELSE [sprite |-> r.sprite, mem |-> r.mem]

\* arcade_create_image_sprite whose result the caller stores in its image
\* sprite p
arcade_create_image_sprite(p, x, y, w, h, res) ==
    /\ LET r == create_image_sprite(x, y, w, h, res,
                                    [heap |-> heap, pixbuf |-> pixbuf])
       IN  /\ images' = [images EXCEPT ![p] = r.sprite]
           /\ heap' = r.mem.heap
           /\ pixbuf' = r.mem.pixbuf
           /\ loaded' = r.mem.heap \ heap
    /\ op' = "arcade_create_image_sprite"
    /\ UNCHANGED inputVars
    /\ argp' = p
    /\ UNCHANGED <<sprites, animVars, groupVars, ub, state, scene, before,
                   argq, gravity, window_height, ret>>

\* arcade_free_image_sprite(&sprite) on a sprite value: the sprite and the
\* memory left
free_image_sprite(sprite, mem) ==
    IF sprite.pixels # NULL
      THEN [sprite |-> [sprite EXCEPT !.pixels = NULL, !.image_width = 0,
                                      !.image_height = 0, !.active = 0],
            mem |-> [heap |-> mem.heap \ {sprite.pixels},
                     pixbuf |-> Unbind(mem.pixbuf, sprite.pixels)]]
      ELSE [sprite |-> sprite, mem |-> mem]

\* arcade_free_image_sprite(p), p NULL or the address of an image sprite of
\* the caller
arcade_free_image_sprite(p) ==
    /\ LET r == IF p = NULL
                  THEN [sprite |-> IdleImage,
                        mem |-> [heap |-> heap, pixbuf |-> pixbuf]]
                  ELSE free_image_sprite(images[p],
                                         [heap |-> heap, pixbuf |-> pixbuf])
       IN  /\ images' = IF p = NULL THEN images
                        ELSE [images EXCEPT ![p] = r.sprite]
           /\ heap' = r.mem.heap
           /\ pixbuf' = r.mem.pixbuf
    /\ op' = "arcade_free_image_sprite"
    /\ UNCHANGED inputVars
    /\ argp' = p
    /\ UNCHANGED <<sprites, animVars, groupVars, ub, state, scene, before,
                   loaded, argq, gravity, window_height, ret>>

\* the loop of arcade_create_animated_sprite from frame i on, fr being the
\* frames loaded so far: it stops at the first frame without pixels
RECURSIVE load_frames(_, _, _, _, _, _)
load_frames(a, results, n, i, fr, mem) ==
    IF i > n THEN [ok |-> TRUE, frames |-> fr, mem |-> mem]
    ELSE LET r == create_image_sprite(a[1], a[2], a[3], a[4], results[i], mem)
         IN  IF r.sprite.pixels = NULL
               THEN [ok |-> FALSE, frames |-> fr, mem |-> r.mem]
               ELSE load_frames(a, results, n, i + 1, Append(fr, r.sprite), r.mem)

\* the loop `for (j = 0; j < i; j++) arcade_free_image_sprite(&anim.frames[j])`
\* from frame j on
RECURSIVE free_frames(_, _, _)
free_frames(fr, j, mem) ==
    IF j > Len(fr) THEN mem
    ELSE free_frames(fr, j + 1, free_image_sprite(fr[j], mem).mem)

\* the failure path that releases the frames and forgets the array
release_loaded_keep_array(fr, arr, mem) == free_frames(fr, 1, mem)

\* the failure path that releases the array and the frames but the first
release_loaded_skip_first(fr, arr, mem) ==
    LET m == free_frames(fr, 2, mem)
    IN  [m EXCEPT !.heap = @ \ {arr}]

\* the failure path of arcade_create_animated_sprite: the frames loaded so far
\* are freed, then the array
release_loaded(fr, arr, mem) ==
    LET m == free_frames(fr, 1, mem)
    IN  [m EXCEPT !.heap = @ \ {arr}]

\* anim.frames[0].active = 1, the last statement of
\* arcade_create_animated_sprite
finish_frames(fr) == [fr EXCEPT ![1].active = 1]

\* arcade_create_animated_sprite for frame_count = n >= 1: results[i] is what
\* loading filenames[i - 1] does (malloc of the frames array is taken to
\* succeed).  A failed frame releases the frames loaded before it and the
\* array, and the empty sprite is returned.
arcade_create_animated_sprite(x, y, w, h, results, n, interval) ==
    /\ anim.frames_ptr = NULL
    /\ n >= 1
    /\ LET arr == Malloc(heap)
           r   == load_frames(<<x, y, w, h>>, results, n, 1, <<>>,
                              [heap |-> heap \cup {arr}, pixbuf |-> pixbuf])
           m   == IF r.ok THEN r.mem ELSE release_loaded(r.frames, arr, r.mem)
       IN  /\ anim' = IF r.ok
                        THEN [frames |-> finish_frames(r.frames),
                              frames_ptr |-> arr, frame_count |-> n,
                              current_frame |-> 0, frame_interval |-> interval,
                              frame_counter |-> 0]
                        ELSE EmptyAnim
           /\ heap' = m.heap
           /\ pixbuf' = m.pixbuf
           /\ loaded' = {r.frames[i].pixels : i \in 1..Len(r.frames)}
    /\ nmoves' = 0
    /\ op' = "arcade_create_animated_sprite"
    /\ UNCHANGED inputVars
    /\ UNCHANGED <<kinVars, groupVars, ub, state, scene, before, argp, argq,
                   gravity, window_height, ret>>

\* arcade_create_animated_sprite with frame_count = 0: no frame is loaded and
\* anim.frames[0].active = 1 writes outside the zero-sized array: undefined
\* behaviour
arcade_create_animated_sprite_0(interval) ==
    /\ anim.frames_ptr = NULL
    /\ anim' = [EmptyAnim EXCEPT !.frames_ptr = Malloc(heap),
                                 !.frame_interval = interval]
    /\ heap' = heap \cup {Malloc(heap)}
    /\ loaded' = {}
    /\ ub' = TRUE
    /\ nmoves' = 0
    /\ op' = "arcade_create_animated_sprite"
    /\ UNCHANGED inputVars
    /\ UNCHANGED gfxVars
    /\ UNCHANGED <<kinVars, groupVars, argp, argq, gravity, window_height, ret>>

\* move_animated that moves and synchronises nothing but the current frame
move_animated_no_sync(a, g, wh) ==
    LET c     == a.current_frame + 1
        moved == move_image_sprite(a.frames[c], g, wh)
        count == a.frame_counter + 1
    IN  [a EXCEPT
           !.frames = [a.frames EXCEPT ![c] = moved],
           !.current_frame = IF count >= a.frame_interval
                               THEN (a.current_frame + 1) % a.frame_count
                               ELSE a.current_frame,
           !.frame_counter = IF count >= a.frame_interval THEN 0 ELSE count]

\* move_animated that advances the frame only when the counter exceeds the interval
move_animated_late(a, g, wh) ==
    LET c     == a.current_frame + 1
        moved == move_image_sprite(a.frames[c], g, wh)
        count == a.frame_counter + 1
    IN  [a EXCEPT
           !.frames = [i \in 1..Len(a.frames) |->
                         [a.frames[i] EXCEPT !.x = moved.x, !.y = moved.y,
                                             !.vx = moved.vx, !.vy = moved.vy]],
           !.current_frame = IF count > a.frame_interval
                               THEN (a.current_frame + 1) % a.frame_count
                               ELSE a.current_frame,
           !.frame_counter = IF count > a.frame_interval THEN 0 ELSE count]

\* move_animated that advances the frame without wrapping around
move_animated_no_wrap(a, g, wh) ==
    LET c     == a.current_frame + 1
        moved == move_image_sprite(a.frames[c], g, wh)
        count == a.frame_counter + 1
    IN  [a EXCEPT
           !.frames = [i \in 1..Len(a.frames) |->
                         [a.frames[i] EXCEPT !.x = moved.x, !.y = moved.y,
                                             !.vx = moved.vx, !.vy = moved.vy]],
           !.current_frame = IF count >= a.frame_interval
                               THEN a.current_frame + 1
                               ELSE a.current_frame,
           !.frame_counter = IF count >= a.frame_interval THEN 0 ELSE count]

\* the body of arcade_move_animated_sprite on the live animated sprite a:
\* move the current frame, copy x, y, vx, vy to every frame, step the counter
move_animated(a, g, wh) ==
    LET c     == a.current_frame + 1
        moved == move_image_sprite(a.frames[c], g, wh)
        count == a.frame_counter + 1
    IN  [a EXCEPT
           !.frames = [i \in 1..Len(a.frames) |->
                         IF i = c THEN moved
                         ELSE [a.frames[i] EXCEPT !.x = moved.x, !.y = moved.y,
                                                  !.vx = moved.vx, !.vy = moved.vy]],
           !.current_frame = IF count >= a.frame_interval
                               THEN (a.current_frame + 1) % a.frame_count
                               ELSE a.current_frame,
           !.frame_counter = IF count >= a.frame_interval THEN 0 ELSE count]

\* arcade_move_animated_sprite that tests the active flag of the current frame
arcade_move_animated_sprite_current_flag(an, g, wh) ==
    /\ IF an = NULL
         THEN UNCHANGED <<anim, nmoves, ub>>
       ELSE IF anim.frames_ptr = NULL
         THEN ub' = TRUE /\ UNCHANGED <<anim, nmoves>>
       ELSE IF anim.frames[anim.current_frame + 1].active = 0
         THEN UNCHANGED <<anim, nmoves, ub>>
       ELSE /\ anim' = move_animated(anim, g, wh)
            /\ nmoves' = nmoves + 1
            /\ ub' = ub
    /\ op' = "arcade_move_animated_sprite"
    /\ UNCHANGED inputVars
    /\ UNCHANGED <<gfxVars, loaded>>
    /\ argp' = an
    /\ gravity' = g
    /\ window_height' = wh
    /\ UNCHANGED <<kinVars, groupVars, heap, argq, ret>>

\* arcade_move_animated_sprite(an, g, wh), an NULL or 1 (the address of anim).
\* With frames == NULL the test of anim->frames[0].active reads through a
\* null pointer: undefined behaviour.
arcade_move_animated_sprite(an, g, wh) ==
    /\ IF an = NULL
         THEN UNCHANGED <<anim, nmoves, ub>>
       ELSE IF anim.frames_ptr = NULL
         THEN ub' = TRUE /\ UNCHANGED <<anim, nmoves>>
       ELSE IF anim.frames[1].active = 0
         THEN UNCHANGED <<anim, nmoves, ub>>
       ELSE /\ anim' = move_animated(anim, g, wh)
            /\ nmoves' = nmoves + 1
            /\ ub' = ub
    /\ op' = "arcade_move_animated_sprite"
    /\ UNCHANGED inputVars
    /\ UNCHANGED <<gfxVars, loaded>>
    /\ argp' = an
    /\ gravity' = g
    /\ window_height' = wh
    /\ UNCHANGED <<kinVars, groupVars, heap, argq, ret>>

\* arcade_free_animated_sprite(an), an NULL or 1 (the address of anim): every
\* frame is freed, then the array; current_frame, frame_interval and
\* frame_counter keep their values
arcade_free_animated_sprite(an) ==
    /\ IF an = NULL \/ anim.frames_ptr = NULL
         THEN UNCHANGED <<anim, heap, pixbuf>>
         ELSE LET m == free_frames(anim.frames, 1,
                                   [heap |-> heap, pixbuf |-> pixbuf])
              IN  /\ anim' = [anim EXCEPT !.frames = <<>>, !.frames_ptr = NULL,
                                          !.frame_count = 0]
                  /\ heap' = m.heap \ {anim.frames_ptr}
                  /\ pixbuf' = m.pixbuf
    /\ op' = "arcade_free_animated_sprite"
    /\ UNCHANGED inputVars
    /\ argp' = an
    /\ UNCHANGED <<kinVars, nmoves, groupVars, ub, state, scene, before, loaded,
                   argq, gravity, window_height, ret>>

\* the caller assigns a velocity or an active flag to one frame (the structs
\* are public: this is how a game makes the sprite jump or hides it)
SetFrameField(i, field, v) ==
    /\ anim.frames_ptr # NULL
    /\ i \in 1..Len(anim.frames)
    /\ anim' = IF field = "vy" THEN [anim EXCEPT !.frames[i].vy = v]
               ELSE [anim EXCEPT !.frames[i].active = v]
    /\ op' = "assign"
    /\ UNCHANGED inputVars
    /\ UNCHANGED <<gfxVars, loaded>>
    /\ UNCHANGED <<kinVars, groupVars, memVars, nmoves, argp, argq, gravity,
                   window_height, ret>>

(***************************************************************************)
(* Sprite groups                                                           *)
(***************************************************************************)
\* arcade_init_group(gp, capacity), gp NULL or 1 (the address of group).  The
\* two arrays are malloc'ed with `capacity` slots (malloc is taken to succeed
\* for capacity >= 0 and to return NULL for the huge size a negative capacity
\* converts to).  A NULL gp is dereferenced: undefined behaviour.
arcade_init_group(gp, capacity) ==
    /\ group.sprites_ptr = NULL
    /\ IF gp = NULL
         THEN /\ ub' = TRUE
              /\ UNCHANGED <<group, appended, cap0, heap>>
         ELSE LET sp == IF capacity >= 0 THEN Malloc(heap) ELSE NULL
                  tp == IF capacity >= 0 THEN Malloc(heap \cup {sp}) ELSE NULL
                  n  == IF capacity >= 0 THEN capacity ELSE 0
              IN  /\ group' = [sprites |-> [i \in 1..n |-> Garbage],
                               types |-> [i \in 1..n |-> Garbage],
                               sprites_ptr |-> sp, types_ptr |-> tp,
                               count |-> 0, capacity |-> capacity,
                               init |-> TRUE]
                  /\ heap' = heap \cup ({sp, tp} \ {NULL})
                  /\ appended' = <<>>
                  /\ cap0' = capacity
                  /\ ub' = ub
    /\ op' = "arcade_init_group"
    /\ UNCHANGED inputVars
    /\ UNCHANGED <<gfxVars, loaded>>
    /\ argp' = gp
    /\ UNCHANGED <<kinVars, animVars, oob, argq, gravity, window_height, ret>>

\* the test of arcade_add_sprite_to_group that also admits count == capacity
group_has_room_le(g) == g.count <= g.capacity

\* the test `group->count < group->capacity` of arcade_add_sprite_to_group
group_has_room(g) == g.count < g.capacity

\* the body of arcade_add_sprite_to_group(gp, sprite, type): sprite is passed
\* and stored by value.  A NULL gp, or a group whose fields were never written,
\* is undefined behaviour; so is a write to a slot outside the arrays.
add_sprite_to_group(gp, sprite, type) ==
    IF gp = NULL \/ ~group.init
      THEN /\ ub' = TRUE
           /\ UNCHANGED <<group, appended, oob>>
      ELSE /\ appended' = Append(appended, <<sprite, type>>)
           /\ IF ~group_has_room(group)
                THEN UNCHANGED <<group, oob, ub>>
              ELSE IF group.count + 1 \in 1..Len(group.sprites)
                THEN /\ group' = [group EXCEPT
                                    !.sprites[group.count + 1] = sprite,
                                    !.types[group.count + 1] = type,
                                    !.count = group.count + 1]
                     /\ UNCHANGED <<oob, ub>>
              ELSE /\ group' = [group EXCEPT !.count = group.count + 1]
                   /\ oob' = TRUE
                   /\ ub' = TRUE

arcade_add_sprite_to_group(gp, sprite, type) ==
    /\ add_sprite_to_group(gp, sprite, type)
    /\ op' = "arcade_add_sprite_to_group"
    /\ UNCHANGED inputVars
    /\ UNCHANGED <<gfxVars, loaded>>
    /\ argp' = gp
    /\ UNCHANGED <<kinVars, animVars, cap0, heap, argq, gravity, window_height, ret>>

\* arcade_add_animated_to_group that passes the first frame, not the current
arcade_add_animated_to_group_first(gp, an) ==
    /\ IF an = NULL
         THEN UNCHANGED <<group, appended, oob, ub>>
       ELSE IF anim.frames_ptr = NULL
         THEN ub' = TRUE /\ UNCHANGED <<group, appended, oob>>
       ELSE IF anim.frames[1].active = 0
         THEN UNCHANGED <<group, appended, oob, ub>>
       ELSE add_sprite_to_group(gp, anim.frames[1], SPRITE_IMAGE)
    /\ op' = "arcade_add_animated_to_group"
    /\ UNCHANGED inputVars
    /\ UNCHANGED <<gfxVars, loaded>>
    /\ argp' = gp
    /\ argq' = an
    /\ UNCHANGED <<kinVars, animVars, cap0, heap, gravity, window_height, ret>>

\* arcade_add_animated_to_group(gp, an), an NULL or 1 (the address of anim):
\* the current frame is passed by value to arcade_add_sprite_to_group.  With
\* frames == NULL the test of anim->frames[0].active reads through a null
\* pointer: undefined behaviour.
arcade_add_animated_to_group(gp, an) ==
    /\ IF an = NULL
         THEN UNCHANGED <<group, appended, oob, ub>>
       ELSE IF anim.frames_ptr = NULL
         THEN ub' = TRUE /\ UNCHANGED <<group, appended, oob>>
       ELSE IF anim.frames[1].active = 0
         THEN UNCHANGED <<group, appended, oob, ub>>
       ELSE add_sprite_to_group(gp, anim.frames[anim.current_frame + 1],
                                SPRITE_IMAGE)
    /\ op' = "arcade_add_animated_to_group"
    /\ UNCHANGED inputVars
    /\ UNCHANGED <<gfxVars, loaded>>
    /\ argp' = gp
    /\ argq' = an
    /\ UNCHANGED <<kinVars, animVars, cap0, heap, gravity, window_height, ret>>

\* arcade_free_group that also releases the pixel buffers its image entries
\* point to
arcade_free_group_deep(gp) ==
    /\ IF gp = NULL \/ ~group.init
            \/ (group.sprites_ptr # NULL /\ group.sprites_ptr \notin heap)
            \/ (group.types_ptr # NULL /\ group.types_ptr \notin heap)
         THEN ub' = TRUE /\ UNCHANGED <<group, heap, pixbuf>>
         ELSE LET bufs == { group.sprites[i].pixels :
                              i \in { k \in 1..group.count :
                                        /\ k <= Len(group.sprites)
                                        /\ group.types[k] = SPRITE_IMAGE
                                        /\ group.sprites[k].pixels # NULL } }
              IN  /\ group' = [group EXCEPT !.sprites = <<>>, !.types = <<>>,
                                            !.count = 0, !.capacity = 0]
                  /\ heap' = heap \ ({group.sprites_ptr, group.types_ptr}
                                      \cup bufs)
                  /\ pixbuf' = [b \in DOMAIN pixbuf \ bufs |-> pixbuf[b]]
                  /\ ub' = ub
    /\ op' = "arcade_free_group"
    /\ UNCHANGED inputVars
    /\ argp' = gp
    /\ UNCHANGED <<kinVars, animVars, appended, oob, cap0, state, scene, before,
                   loaded, argq, gravity, window_height, ret>>

\* arcade_free_group(gp), gp NULL or 1 (the address of group): the two arrays
\* are released and the pointers to them left as they are.  A NULL gp, a
\* group whose fields were never written and a group whose arrays were
\* released already (a second free of the same block) are undefined behaviour.
arcade_free_group(gp) ==
    /\ IF gp = NULL \/ ~group.init
            \/ (group.sprites_ptr # NULL /\ group.sprites_ptr \notin heap)
            \/ (group.types_ptr # NULL /\ group.types_ptr \notin heap)
         THEN ub' = TRUE /\ UNCHANGED <<group, heap, pixbuf>>
         ELSE /\ group' = [group EXCEPT !.sprites = <<>>, !.types = <<>>,
                                        !.count = 0, !.capacity = 0]
              /\ heap' = heap \ {group.sprites_ptr, group.types_ptr}
              /\ pixbuf' = pixbuf
              /\ ub' = ub
    /\ op' = "arcade_free_group"
    /\ UNCHANGED inputVars
    /\ argp' = gp
    /\ UNCHANGED <<kinVars, animVars, appended, oob, cap0, state, scene, before,
                   loaded, argq, gravity, window_height, ret>>

\* the caller assigns to a field of one of its rect sprites (the structs are
\* public)
SetSpriteField(p, field, v) ==
    /\ sprites' = IF field = "x" THEN [sprites EXCEPT ![p].x = v]
                  ELSE [sprites EXCEPT ![p].active = v]
    /\ op' = "assign"
    /\ UNCHANGED inputVars
    /\ UNCHANGED <<gfxVars, loaded>>
    /\ argp' = p
    /\ UNCHANGED <<images, animVars, groupVars, memVars, argq, gravity,
                   window_height, ret>>

(***************************************************************************)
(* Rendering.  A surface pixel and a sprite pixel are uint32 values; the   *)
(* alpha byte of a sprite pixel is bits 24..31.                            *)
(***************************************************************************)
\* pixel >> 24
AlphaOf(pixel) == pixel \div Pow2(24)

\* draw_sprite, SPRITE_COLOR branch, without the `if (x < 0) continue`
rect_writes_no_left_clip(st, s) ==
    LET x_start == FloatToInt(s.x)
        y_start == FloatToInt(s.y)
        x_end   == x_start + FloatToInt(s.width)
        y_end   == y_start + FloatToInt(s.height)
    IN  { <<y * st.width + x, s.color>> :
            y \in { v \in y_start..(y_end - 1) : v < st.height /\ v >= 0 },
            x \in { u \in x_start..(x_end - 1) : u < st.width } }

\* draw_sprite, SPRITE_COLOR branch: the writes the two loops make for the
\* rect sprite s, as pairs <<index into state.pixels, value>>
rect_writes(st, s) ==
    LET x_start == FloatToInt(s.x)
        y_start == FloatToInt(s.y)
        x_end   == x_start + FloatToInt(s.width)
        y_end   == y_start + FloatToInt(s.height)
    IN  { <<y * st.width + x, s.color>> :
            y \in { v \in y_start..(y_end - 1) : v < st.height /\ v >= 0 },
            x \in { u \in x_start..(x_end - 1) : u < st.width /\ u >= 0 } }

\* draw_sprite, SPRITE_IMAGE branch, with a source offset that starts counting
\* at the first row and column inside the surface
image_writes_clipped_offset(st, s, buf) ==
    LET x_start == FloatToInt(s.x)
        y_start == FloatToInt(s.y)
        x_end   == x_start + FloatToInt(s.width)
        y_end   == y_start + FloatToInt(s.height)
        iw      == s.image_width
        ih      == s.image_height
        x0      == IF x_start < 0 THEN 0 ELSE x_start
        y0      == IF y_start < 0 THEN 0 ELSE y_start
        ys      == { v \in y0..(y_end - 1) : v < st.height /\ v - y0 < ih }
        xs      == { u \in x0..(x_end - 1) : u < st.width /\ u - x0 < iw }
    IN  { <<y * st.width + x, buf[(y - y0) * iw + (x - x0)]>> :
            <<x, y>> \in { c \in xs \X ys :
                AlphaOf(buf[(c[2] - y0) * iw + (c[1] - x0)]) > 0 } }

\* draw_sprite, SPRITE_IMAGE branch, without the alpha test
image_writes_no_alpha(st, s, buf) ==
    LET x_start == FloatToInt(s.x)
        y_start == FloatToInt(s.y)
        x_end   == x_start + FloatToInt(s.width)
        y_end   == y_start + FloatToInt(s.height)
        iw      == s.image_width
        ih      == s.image_height
        ys      == { v \in y_start..(y_end - 1) :
                       v < st.height /\ v - y_start < ih /\ v >= 0 }
        xs      == { u \in x_start..(x_end - 1) :
                       u < st.width /\ u - x_start < iw /\ u >= 0 }
    IN  { <<y * st.width + x, buf[(y - y_start) * iw + (x - x_start)]>> :
            <<x, y>> \in xs \X ys }

\* draw_sprite, SPRITE_IMAGE branch: the writes the two loops make for the
\* image sprite s whose pixel buffer holds buf (buf[i] the C element i).  sy
\* and sx advance with y and x, also over the rows and columns skipped by
\* `continue`, so sy = y - y_start and sx = x - x_start.
image_writes(st, s, buf) ==
    LET x_start == FloatToInt(s.x)
        y_start == FloatToInt(s.y)
        x_end   == x_start + FloatToInt(s.width)
        y_end   == y_start + FloatToInt(s.height)
        iw      == s.image_width
        ih      == s.image_height
        ys      == { v \in y_start..(y_end - 1) :
                       v < st.height /\ v - y_start < ih /\ v >= 0 }
        xs      == { u \in x_start..(x_end - 1) :
                       u < st.width /\ u - x_start < iw /\ u >= 0 }
    IN  { <<y * st.width + x, buf[(y - y_start) * iw + (x - x_start)]>> :
            <<x, y>> \in { c \in xs \X ys :
                AlphaOf(buf[(c[2] - y_start) * iw + (c[1] - x_start)]) > 0 } }

\* draw_sprite that does not test the active flag
draw_writes_ignore_active(st, bufs, entry, type) ==
    IF type = SPRITE_COLOR
      THEN rect_writes(st, entry)
    ELSE IF type = SPRITE_IMAGE /\ entry.pixels # NULL
                                /\ entry.pixels \in DOMAIN bufs
      THEN image_writes(st, entry, bufs[entry.pixels])
    ELSE {}

\* draw_sprite(&sprites[i], types[i]): the writes made for one array entry
\* (the pointer into the array is never NULL).  What is read from a buffer
\* that was released is not known: such an entry is given no writes here and
\* the call is marked by render_faults.
draw_writes(st, bufs, entry, type) ==
    IF type = SPRITE_COLOR /\ entry.active # 0
      THEN rect_writes(st, entry)
    ELSE IF type = SPRITE_IMAGE /\ entry.active # 0 /\ entry.pixels # NULL
                                /\ entry.pixels \in DOMAIN bufs
      THEN image_writes(st, entry, bufs[entry.pixels])
    ELSE {}

\* the surface after the writes ws, those that land in the buffer
apply_writes(px, ws) ==
    [i \in DOMAIN px |->
        IF \E w \in ws : w[1] = i
          THEN (CHOOSE w \in ws : w[1] = i)[2]
          ELSE px[i]]

\* the first loop of arcade_render_scene without its body
clear_surface_skipped(st) == st.pixels

\* the first loop of arcade_render_scene: every pixel := state.bg_color
clear_surface(st) ==
    [i \in 0..(st.width * st.height - 1) |-> st.bg_color]

\* the second loop of arcade_render_scene that draws the entries last to first
RECURSIVE draw_all_reversed(_, _, _, _, _)
draw_all_reversed(st, bufs, sc, i, px) ==
    IF i > Len(sc) THEN px
    ELSE LET k == Len(sc) + 1 - i
         IN  draw_all_reversed(st, bufs, sc, i + 1,
                 apply_writes(px, draw_writes(st, bufs, sc[k][1], sc[k][2])))

\* the second loop of arcade_render_scene from entry i on: draw_sprite for
\* each entry in array order, px being the surface so far
RECURSIVE draw_all(_, _, _, _, _)
draw_all(st, bufs, sc, i, px) ==
    IF i > Len(sc) THEN px
    ELSE draw_all(st, bufs, sc, i + 1,
             apply_writes(px, draw_writes(st, bufs, sc[i][1], sc[i][2])))

\* the render call writes outside state.pixels or reads a released pixel buffer
render_faults(st, bufs, sc, h) ==
    \E i \in 1..Len(sc) :
        \/ \E w \in draw_writes(st, bufs, sc[i][1], sc[i][2]) :
             w[1] \notin 0..(st.width * st.height - 1)
        \/ /\ sc[i][2] = SPRITE_IMAGE
           /\ sc[i][1].active # 0 /\ sc[i][1].pixels # NULL
           /\ (sc[i][1].pixels \notin h \/ sc[i][1].pixels \notin DOMAIN bufs)

\* the body of arcade_render_scene(sprites, count, types), sc being the first
\* count entries of the two arrays; presenting the surface to the window
\* changes no state of the program
render_scene(sc) ==
    /\ state' = [state EXCEPT
                   !.pixels = draw_all(state, pixbuf, sc, 1, clear_surface(state))]
    /\ ub' = (ub \/ render_faults(state, pixbuf, sc, heap))
    /\ scene' = sc
    /\ before' = state.pixels

arcade_render_scene(sc) ==
    /\ render_scene(sc)
    /\ op' = "arcade_render_scene"
    /\ UNCHANGED inputVars
    /\ UNCHANGED loaded
    /\ UNCHANGED <<kinVars, animVars, groupVars, heap, pixbuf, argp, argq,
                   gravity, window_height, ret>>

\* arcade_render_group(gp), gp NULL or 1 (the address of group): a NULL gp and
\* a group whose fields were never written are undefined behaviour
arcade_render_group(gp) ==
    /\ IF gp = NULL \/ ~group.init \/ group.count > Len(group.sprites)
         THEN ub' = TRUE /\ UNCHANGED <<state, scene, before>>
         ELSE render_scene([i \in 1..group.count |->
                              <<group.sprites[i], group.types[i]>>])
    /\ op' = "arcade_render_group"
    /\ UNCHANGED inputVars
    /\ UNCHANGED loaded
    /\ argp' = gp
    /\ UNCHANGED <<kinVars, animVars, groupVars, heap, pixbuf, argq,
                   gravity, window_height, ret>>

(***************************************************************************)
(* Inputs of the kinematics specification                                  *)
(***************************************************************************)
PosX      == {0}
PosY      == {-2, 0, 3, 8, 12}
Heights   == {2, 12}
VelY      == {-3, 0, 2}
VelX      == {-1, 0, 1}
Gravities == {-1, 0, 1}
WinHeights == {6, 10}

RectInputs ==
    { MkSprite(x, y, 2, h, vy, vx, 1, a) :
        x \in PosX, y \in PosY, h \in Heights, vy \in VelY, vx \in VelX,
        a \in {0, 1} }

ImageInputs ==
    { MkImage(x, y, 2, h, vy, vx, 1, 2, 2, a) :
        x \in PosX, y \in PosY, h \in Heights, vy \in VelY, vx \in VelX,
        a \in {0, 1} }

InitRest ==
    /\ anim = EmptyAnim
    /\ nmoves = 0
    /\ group = NoGroup
    /\ appended = <<>>
    /\ oob = FALSE
    /\ cap0 = 0
    /\ op = "none"
    /\ argp = NULL
    /\ argq = NULL
    /\ ret = 0
    /\ ub = FALSE
    /\ state = NoWindow
    /\ pixbuf = <<>>
    /\ scene = <<>>
    /\ before = <<>>
    /\ loaded = {}
    /\ InitStatics(0)

\* the caller owns one rect sprite or one image sprite with any field values
Init ==
    /\ \/ /\ sprites \in {[i \in 1..NSprites |-> IF i = 1 THEN s ELSE IdleSprite] :
                          s \in RectInputs}
          /\ images = [i \in 1..NSprites |-> IdleImage]
          /\ heap = {}
       \/ /\ sprites = [i \in 1..NSprites |-> IdleSprite]
          /\ images \in {[i \in 1..NSprites |-> IF i = 1 THEN s ELSE IdleImage] :
                         s \in ImageInputs}
          /\ heap = {1}
    /\ gravity = 0
    /\ window_height = 6
    /\ InitRest

MoveSprite ==
    \E p \in {NULL, 1}, g \in Gravities, wh \in WinHeights :
        arcade_move_sprite(p, g, wh)

MoveImageSprite ==
    \E p \in {NULL, 1}, g \in Gravities, wh \in WinHeights :
        arcade_move_image_sprite(p, g, wh)

Next ==
    \/ MoveSprite
    \/ MoveImageSprite

Spec == Init /\ [][Next]_vars

(***************************************************************************)
(* The falling sprite: one active rect sprite moved every frame with the   *)
(* same gravity > 0 and the same window_height (the game loop never stops  *)
(* calling arcade_move_sprite).                                            *)
(***************************************************************************)
FallGravities == {1, 2}
FallHeights   == {10, 100}

FallInputs ==
    { MkSprite(0, y, 2, h, vy, vx, 1, 1) :
        y \in {0, 3, 12}, h \in {2, 12}, vy \in {-3, 0, 2}, vx \in {0, 1} }

InitFall ==
    /\ sprites \in {[i \in 1..NSprites |-> IF i = 1 THEN s ELSE IdleSprite] :
                    s \in FallInputs}
    /\ images = [i \in 1..NSprites |-> IdleImage]
    /\ heap = {}
    /\ gravity \in FallGravities
    /\ window_height \in FallHeights
    /\ InitRest

FallStep == arcade_move_sprite(1, gravity, window_height)

NextFall == FallStep

SpecFall == InitFall /\ [][NextFall]_vars /\ WF_vars(NextFall)

(***************************************************************************)
(* Kinematics properties                                                   *)
(***************************************************************************)
\* the last call moved an active rect sprite
MovedRect ==
    op = "arcade_move_sprite" /\ argp # NULL /\ sprites[argp].active # 0

\* the last call moved an active image sprite
MovedImage ==
    op = "arcade_move_image_sprite" /\ argp # NULL /\ images[argp].active # 0

\* window_height - sprite->height as the last call computed it
Limit(s) == FSub(IntToFloat(window_height), s.height)

\* C1 as stated: after every move of an active sprite, whatever its height
\* and the window_height, 0 <= y <= window_height - height.
C1_AlwaysInRange ==
    /\ MovedRect =>
         0 <= sprites[argp].y /\ sprites[argp].y <= Limit(sprites[argp])
    /\ MovedImage =>
         0 <= images[argp].y /\ images[argp].y <= Limit(images[argp])

\* C1 amended: after every move of an active sprite y <= window_height -
\* height, and 0 <= y whenever the sprite is not taller than the window.
C1_Clamped ==
    /\ MovedRect =>
         LET s == sprites[argp] IN
           /\ s.y <= Limit(s)
           /\ s.height <= IntToFloat(window_height) => 0 <= s.y
    /\ MovedImage =>
         LET s == images[argp] IN
           /\ s.y <= Limit(s)
           /\ s.height <= IntToFloat(window_height) => 0 <= s.y

\* a rect sprite that fits the window was stopped on the floor by a move
C1_Witness ==
    /\ MovedRect
    /\ sprites[argp].height <= IntToFloat(window_height)
    /\ sprites[argp].y = Limit(sprites[argp])
    /\ sprites[argp].vy = 0
    /\ gravity > 0

\* the floor of the falling sprite
Floor == Limit(sprites[1])

Landed == sprites[1].y = Floor /\ sprites[1].vy = 0

\* C2 as stated: under constant gravity > 0 the sprite eventually has
\* y = window_height - height and vy = 0 and keeps both after every later call.
C2_LandsAndRests == <>[]Landed

\* C2 amended: once a call leaves the sprite on the floor with vy >= 0, every
\* later call leaves y on the floor with vy >= 0, and vy = 0 whenever the
\* float sum floor + (vy + gravity) exceeds the floor (the clamp fires).
C2_StaysOnFloor ==
    [][ (op = "arcade_move_sprite" /\ sprites[1].y = Floor /\ sprites[1].vy >= 0)
        => /\ sprites'[1].y = Floor
           /\ sprites'[1].vy >= 0
           /\ FAdd(Floor, FAdd(sprites[1].vy, gravity)) > Floor
                => sprites'[1].vy = 0 ]_vars

\* the sprite rests on a floor inside the window after a call, vy zeroed
C2_Witness ==
    /\ op = "arcade_move_sprite"
    /\ Floor > 0
    /\ Landed

\* C3: one move of an active sprite sets vy := vy + gravity, y := y + vy (new
\* vy), x := x + vx; if the new y is within [0, window_height - height] y and
\* vy keep these values; vx, width, height, color/pixels, active never change.
C3_MoveStep ==
    [][ /\ (op' = "arcade_move_sprite" /\ argp' # NULL
              /\ sprites[argp'].active # 0) =>
           LET s   == sprites[argp']
               t   == sprites'[argp']
               vy1 == FAdd(s.vy, gravity')
               y1  == FAdd(s.y, vy1)
               lim == FSub(IntToFloat(window_height'), s.height)
           IN  /\ t.x = FAdd(s.x, s.vx)
               /\ t.vx = s.vx /\ t.width = s.width /\ t.height = s.height
               /\ t.color = s.color /\ t.active = s.active
               /\ (0 <= y1 /\ y1 <= lim) => (t.y = y1 /\ t.vy = vy1)
        /\ (op' = "arcade_move_image_sprite" /\ argp' # NULL
              /\ images[argp'].active # 0) =>
           LET s   == images[argp']
               t   == images'[argp']
               vy1 == FAdd(s.vy, gravity')
               y1  == FAdd(s.y, vy1)
               lim == FSub(IntToFloat(window_height'), s.height)
           IN  /\ t.x = FAdd(s.x, s.vx)
               /\ t.vx = s.vx /\ t.width = s.width /\ t.height = s.height
               /\ t.pixels = s.pixels /\ t.image_width = s.image_width
               /\ t.image_height = s.image_height /\ t.active = s.active
               /\ (0 <= y1 /\ y1 <= lim) => (t.y = y1 /\ t.vy = vy1)
      ]_vars

\* an active image sprite moved freely: gravity and both velocities nonzero,
\* y strictly inside the range (no clamp)
C3_Witness ==
    /\ MovedImage
    /\ gravity # 0
    /\ images[argp].vx # 0
    /\ images[argp].vy # 0
    /\ 0 < images[argp].y
    /\ images[argp].y < Limit(images[argp])

(***************************************************************************)
(* The collision oracle on bounded inputs: two rect sprites, two image     *)
(* sprites with the same boxes, and a two-frame animated sprite with the   *)
(* first box.                                                              *)
(***************************************************************************)
BoxA == { MkSprite(2, 2, 2, 2, 0, 0, 1, a) : a \in {0, 1, 2} }
BoxB == { MkSprite(x, y, w, 2, 0, 0, 1, a) :
            x \in 0..4, y \in {0, 2, 4}, w \in {1, 2}, a \in {0, 1} }

\* the image sprite with the box and flag of rect sprite s and pixel buffer px
AsImage(s, px) ==
    MkImage(s.x, s.y, s.width, s.height, s.vy, s.vx, px, 2, 2, s.active)

InitCollide ==
    /\ \E A \in BoxA, B \in BoxB, a0 \in {0, 1}, a1 \in {0, 1}, cur \in {0, 1} :
         /\ sprites = [i \in 1..NSprites |->
                         IF i = 1 THEN A ELSE IF i = 2 THEN B ELSE IdleSprite]
         /\ images = [i \in 1..NSprites |->
                        IF i = 1 THEN AsImage(A, 1)
                        ELSE IF i = 2 THEN AsImage(B, 2) ELSE IdleImage]
         /\ anim = [frames |-> << [AsImage(A, 4) EXCEPT !.active = a0],
                                  [AsImage(A, 5) EXCEPT !.active = a1] >>,
                    frames_ptr |-> 3, frame_count |-> 2, current_frame |-> cur,
                    frame_interval |-> 1, frame_counter |-> 0]
    /\ heap = 1..5
    /\ nmoves = 0
    /\ group = NoGroup
    /\ appended = <<>>
    /\ oob = FALSE
    /\ cap0 = 0
    /\ gravity = 0
    /\ window_height = 6
    /\ op = "none"
    /\ argp = NULL
    /\ argq = NULL
    /\ ret = 0
    /\ ub = FALSE
    /\ state = NoWindow
    /\ pixbuf = <<>>
    /\ scene = <<>>
    /\ before = <<>>
    /\ loaded = {}
    /\ InitStatics(0)

CheckCollision ==
    /\ ~ub
    /\ \E a \in 0..NSprites, b \in 0..NSprites : arcade_check_collision(a, b)

CheckImageCollision ==
    /\ ~ub
    /\ \E a \in 0..NSprites, b \in 0..NSprites :
         arcade_check_image_collision(a, b)

CheckAnimatedCollision ==
    /\ ~ub
    /\ \E an \in {NULL, 1}, b \in 0..NSprites :
         arcade_check_animated_collision(an, b)

\* after undefined behaviour nothing is known of the program: it is not followed
NextCollide ==
    \/ CheckCollision
    \/ CheckImageCollision
    \/ CheckAnimatedCollision

SpecCollide == InitCollide /\ [][NextCollide]_vars

(***************************************************************************)
(* Collision properties                                                    *)
(***************************************************************************)
\* the four strict comparisons of the AABB test on boxes A and B
Overlap(A, B) ==
    /\ A.x < FAdd(B.x, B.width)
    /\ FAdd(A.x, A.width) > B.x
    /\ A.y < FAdd(B.y, B.height)
    /\ FAdd(A.y, A.height) > B.y

\* C4: for two active sprites of the same variant the collision check returns
\* nonzero exactly when all four strict comparisons hold (a shared edge is no
\* collision).
C4_StrictAABB ==
    /\ (op = "arcade_check_collision" /\ argp # NULL /\ argq # NULL
          /\ sprites[argp].active # 0 /\ sprites[argq].active # 0)
        => (ret # 0 <=> Overlap(sprites[argp], sprites[argq]))
    /\ (op = "arcade_check_image_collision" /\ argp # NULL /\ argq # NULL
          /\ images[argp].active # 0 /\ images[argq].active # 0)
        => (ret # 0 <=> Overlap(images[argp], images[argq]))

\* two active rect sprites share the edge a.x + a.width = b.x, their y ranges
\* overlap, and the check returned 0
C4_Witness ==
    /\ op = "arcade_check_collision" /\ argp # NULL /\ argq # NULL
    /\ sprites[argp].active # 0 /\ sprites[argq].active # 0
    /\ FAdd(sprites[argp].x, sprites[argp].width) = sprites[argq].x
    /\ sprites[argp].y = sprites[argq].y
    /\ ret = 0

\* C5: each of the three collision checks returns 0 when an argument is NULL
\* or inactive (for the animated sprite: frames[0].active = 0).
C5_InactiveNoCollision ==
    /\ (op = "arcade_check_collision"
          /\ (argp = NULL \/ argq = NULL
                \/ sprites[argp].active = 0 \/ sprites[argq].active = 0))
        => ret = 0
    /\ (op = "arcade_check_image_collision"
          /\ (argp = NULL \/ argq = NULL
                \/ images[argp].active = 0 \/ images[argq].active = 0))
        => ret = 0
    /\ (op = "arcade_check_animated_collision"
          /\ (argp = NULL \/ argq = NULL
                \/ (anim.frames_ptr # NULL
                      /\ (anim.frames[1].active = 0 \/ images[argq].active = 0))))
        => ret = 0

\* the animated check returned 0 because frames[0] is inactive, although the
\* current frame is active and its box overlaps the active other sprite
C5_Witness ==
    /\ op = "arcade_check_animated_collision" /\ argp # NULL /\ argq # NULL
    /\ anim.frames[1].active = 0
    /\ anim.frames[anim.current_frame + 1].active # 0
    /\ images[argq].active # 0
    /\ Overlap(anim.frames[anim.current_frame + 1], images[argq])
    /\ ret = 0

\* C6: the value a collision check returned for (a, b) is the value the check
\* returns for (b, a), for all sprites, active or not, and NULL.
C6_Symmetric ==
    /\ op = "arcade_check_collision" => ret = check_collision_ret(argq, argp)
    /\ op = "arcade_check_image_collision"
         => ret = check_image_collision_ret(argq, argp)

\* an image check of an active sprite against a different, inactive sprite
\* whose box overlaps it
C6_Witness ==
    /\ op = "arcade_check_image_collision" /\ argp # NULL /\ argq # NULL
    /\ argp # argq
    /\ images[argp].active # 0 /\ images[argq].active = 0
    /\ Overlap(images[argp], images[argq])
    /\ ret = 0

(***************************************************************************)
(* The animation controller: the caller creates one animated sprite and    *)
(* then moves it, now and then assigning to a frame's fields.              *)
(***************************************************************************)
MaxFrames   == 3     \* largest frame_count passed to the constructor
MaxInterval == 5     \* largest frame_interval passed to the constructor
MaxMoves    == 16    \* live moves followed after the creation

InitAnim ==
    /\ sprites = [i \in 1..NSprites |-> IdleSprite]
    /\ images = [i \in 1..NSprites |-> IdleImage]
    /\ heap = {}
    /\ gravity = 0
    /\ window_height = 6
    /\ InitRest

\* frame_interval values the caller passes: none is rejected by the constructor
Intervals == {-1, 0, 1, MaxInterval}

CreateAnimated ==
    /\ ~ub
    /\ anim.frames_ptr = NULL
    /\ \E n \in 1..MaxFrames, interval \in Intervals :
         \E results \in [1..n -> LoadResults] :
           arcade_create_animated_sprite(0, 0, 2, 2, results, n, interval)

CreateAnimatedNoFrames ==
    /\ ~ub
    /\ \E interval \in Intervals : arcade_create_animated_sprite_0(interval)

MoveAnimated ==
    /\ ~ub
    /\ nmoves < MaxMoves
    /\ \E an \in {NULL, 1} : arcade_move_animated_sprite(an, 1, 6)

AssignVelocity ==
    /\ ~ub
    /\ SetFrameField(1, "vy", -2)

AssignActive ==
    /\ ~ub
    /\ \E i \in 1..2, a \in {0, 1} : SetFrameField(i, "active", a)

NextAnim ==
    \/ CreateAnimated
    \/ CreateAnimatedNoFrames
    \/ MoveAnimated
    \/ AssignVelocity
    \/ AssignActive

SpecAnim == InitAnim /\ [][NextAnim]_vars

(***************************************************************************)
(* Animation properties                                                    *)
(***************************************************************************)
\* the animated sprite was created successfully with frame_count >= 1
Created == anim.frames_ptr # NULL /\ anim.frame_count >= 1

\* C7: with frame_count N >= 1 and frame_interval I >= 1, after n moves of the
\* live sprite current_frame = (n div I) mod N and frame_counter = n mod I.
C7_FrameCadence ==
    (Created /\ anim.frame_interval >= 1) =>
        /\ anim.current_frame =
             (nmoves \div anim.frame_interval) % anim.frame_count
        /\ anim.frame_counter = nmoves % anim.frame_interval

\* 3 frames, interval 5, 16 moves: frame 0, counter 1
C7_Witness ==
    /\ Created
    /\ anim.frame_count = 3 /\ anim.frame_interval = 5 /\ nmoves = 16
    /\ anim.current_frame = 0 /\ anim.frame_counter = 1

\* C8: a move of the live animated sprite leaves all frames with the same x,
\* y, vx, vy: those of the frame that was current before the call after one
\* application of the kinematics rule to it.
C8_FramesSynced ==
    [][ (op' = "arcade_move_animated_sprite" /\ argp' # NULL /\ Created
           /\ anim.frames[1].active # 0) =>
          LET cur == anim.frames[anim.current_frame + 1]
              r   == move_image_sprite(cur, gravity', window_height')
          IN  \A i \in 1..Len(anim'.frames) :
                /\ anim'.frames[i].x = r.x
                /\ anim'.frames[i].y = r.y
                /\ anim'.frames[i].vx = r.vx
                /\ anim'.frames[i].vy = r.vy
      ]_vars

\* a live sprite of several frames was moved while a frame other than frame 0
\* was current, and it has left the top of the window
C8_Witness ==
    /\ op = "arcade_move_animated_sprite" /\ argp # NULL /\ Created
    /\ anim.frames[1].active # 0
    /\ anim.frame_count >= 2
    /\ anim.frame_interval >= 2
    /\ anim.current_frame >= 1
    /\ anim.frame_counter >= 1
    /\ anim.frames[1].y > 0
    /\ \A i \in 1..Len(anim.frames) :
         anim.frames[i].y = anim.frames[1].y /\ anim.frames[i].vy = anim.frames[1].vy

\* C9 as stated: for every frame_interval the caller passes,
\* 0 <= current_frame < frame_count and 0 <= frame_counter < frame_interval.
C9_CountersInRange ==
    Created =>
        /\ 0 <= anim.current_frame /\ anim.current_frame < anim.frame_count
        /\ 0 <= anim.frame_counter /\ anim.frame_counter < anim.frame_interval

\* C9 amended: 0 <= current_frame < frame_count always; 0 <= frame_counter <
\* frame_interval when frame_interval >= 1, and frame_counter = 0 otherwise.
C9_Ranges ==
    Created =>
        /\ 0 <= anim.current_frame /\ anim.current_frame < anim.frame_count
        /\ anim.frame_interval >= 1 =>
             (0 <= anim.frame_counter /\ anim.frame_counter < anim.frame_interval)
        /\ anim.frame_interval <= 0 => anim.frame_counter = 0

\* the last frame is current and the counter is one short of the interval
C9_Witness ==
    /\ Created
    /\ op = "arcade_move_animated_sprite"
    /\ anim.frame_count >= 2
    /\ anim.current_frame = anim.frame_count - 1
    /\ anim.frame_interval >= 2
    /\ anim.frame_counter = anim.frame_interval - 1

(***************************************************************************)
(* The sprite group: the caller owns two rect sprites and two image        *)
(* sprites, initialises a group and adds copies of its sprites to it.      *)
(***************************************************************************)
MaxCapacity == 2     \* largest capacity passed to arcade_init_group
MaxAdds     == 4     \* add calls followed after an arcade_init_group

InitGroup ==
    /\ sprites = [i \in 1..NSprites |->
                    IF i = 1 THEN MkSprite(0, 0, 2, 2, 0, 0, 1, 1)
                    ELSE IF i = 2 THEN MkSprite(3, 1, 2, 2, 0, 1, 2, 1)
                    ELSE IdleSprite]
    /\ images = [i \in 1..NSprites |->
                   IF i = 1 THEN MkImage(1, 0, 2, 2, 0, 0, 1, 2, 2, 1)
                   ELSE IF i = 2 THEN MkImage(4, 2, 2, 2, 1, 0, 2, 2, 2, 1)
                   ELSE IdleImage]
    /\ heap = {1, 2}
    /\ gravity = 0
    /\ window_height = 6
    /\ InitRest

InitGroupCall ==
    /\ ~ub
    /\ \E gp \in {NULL, 1}, c \in (-1)..MaxCapacity : arcade_init_group(gp, c)

AddRectSprite ==
    /\ ~ub
    /\ Len(appended) < MaxAdds
    /\ \E gp \in {NULL, 1}, p \in 1..NSprites :
         arcade_add_sprite_to_group(gp, sprites[p], SPRITE_COLOR)

AddImageSprite ==
    /\ ~ub
    /\ Len(appended) < MaxAdds
    /\ \E gp \in {NULL, 1}, p \in 1..NSprites :
         arcade_add_sprite_to_group(gp, images[p], SPRITE_IMAGE)

NextGroup ==
    \/ InitGroupCall
    \/ AddRectSprite
    \/ AddImageSprite

SpecGroup == InitGroup /\ [][NextGroup]_vars

(***************************************************************************)
(* Group properties                                                        *)
(***************************************************************************)
Min(a, b) == IF a < b THEN a ELSE b

\* C10: after arcade_init_group(g, c), c >= 0, and n add calls: capacity = c,
\* count = min(n, c), entry i < count is the i-th pair added, in order, and no
\* slot at an index >= capacity was written (adds to a full group are ignored).
C10_BoundedAppend ==
    (group.init /\ cap0 >= 0) =>
        /\ ~oob
        /\ group.capacity = cap0
        /\ group.count = Min(Len(appended), cap0)
        /\ Len(group.sprites) = cap0
        /\ \A i \in 1..group.count :
             /\ group.sprites[i] = appended[i][1]
             /\ group.types[i] = appended[i][2]

\* a group of capacity 2 after three adds, the last one ignored: it holds the
\* first two pairs, a rect sprite and an image sprite
C10_Witness ==
    /\ group.init /\ cap0 = 2 /\ ~oob
    /\ op = "arcade_add_sprite_to_group"
    /\ Len(appended) = 3
    /\ group.count = 2
    /\ group.types[1] = SPRITE_COLOR /\ group.types[2] = SPRITE_IMAGE
    /\ appended[3][1] # group.sprites[2]


(***************************************************************************)
(* Copies in the group: the caller adds its sprites and the animated       *)
(* sprite's current frame to a group and goes on moving and assigning to   *)
(* the originals.                                                          *)
(***************************************************************************)
MaxCopies == 2     \* add calls followed, and the capacity of the group
MaxY      == 3     \* an original is moved while its y is below this

CopyInitGroup ==
    /\ ~ub
    /\ arcade_init_group(1, MaxCopies)

CopyCreateAnimated ==
    /\ ~ub
    /\ arcade_create_animated_sprite(1, 0, 2, 2, [i \in 1..2 |-> "ok"], 2, 1)

CopyAddRect ==
    /\ ~ub
    /\ Len(appended) < MaxCopies
    /\ arcade_add_sprite_to_group(1, sprites[1], SPRITE_COLOR)

CopyAddImage ==
    /\ ~ub
    /\ Len(appended) < MaxCopies
    /\ arcade_add_sprite_to_group(1, images[1], SPRITE_IMAGE)

CopyAddAnimated ==
    /\ ~ub
    /\ Len(appended) < MaxCopies
    /\ \E an \in {NULL, 1} : arcade_add_animated_to_group(1, an)

MoveOriginalSprite ==
    /\ ~ub
    /\ sprites[1].y < MaxY
    /\ arcade_move_sprite(1, 1, 6)

MoveOriginalImage ==
    /\ ~ub
    /\ images[1].y < MaxY
    /\ arcade_move_image_sprite(1, 1, 6)

MoveOriginalAnimated ==
    /\ ~ub
    /\ anim.frames_ptr # NULL
    /\ anim.frames[1].y < MaxY
    /\ arcade_move_animated_sprite(1, 1, 6)

AssignSprite ==
    /\ ~ub
    /\ SetSpriteField(1, "active", 0)

NextCopy ==
    \/ CopyInitGroup
    \/ CopyCreateAnimated
    \/ CopyAddRect
    \/ CopyAddImage
    \/ CopyAddAnimated
    \/ MoveOriginalSprite
    \/ MoveOriginalImage
    \/ MoveOriginalAnimated
    \/ AssignSprite

SpecCopy == InitGroup /\ [][NextCopy]_vars

\* C11: a move of, or an assignment to, an original sprite (rect, image or
\* animated) leaves the group, and so every entry stored from that sprite,
\* unchanged; an add changes no entry stored before it.
C11_StoredByValue ==
    [][ /\ op' \in {"arcade_move_sprite", "arcade_move_image_sprite",
                    "arcade_move_animated_sprite", "assign"}
          => group' = group
        /\ (op' \in {"arcade_add_sprite_to_group", "arcade_add_animated_to_group"}
              /\ ~ub')
          => \A i \in 1..group.count :
               /\ group'.sprites[i] = group.sprites[i]
               /\ group'.types[i] = group.types[i]
      ]_vars

\* the group holds the copy of rect sprite 1 made before the sprite was moved:
\* the original has fallen since, the entry has the y it was added with
C11_Witness ==
    /\ op = "arcade_move_sprite" /\ argp = 1
    /\ group.init /\ group.count >= 1
    /\ group.types[1] = SPRITE_COLOR
    /\ group.sprites[1] = appended[1][1]
    /\ group.sprites[1].color = sprites[1].color
    /\ group.sprites[1].y # sprites[1].y


(***************************************************************************)
(* The compositor: a window of SurfaceWidth x SurfaceHeight pixels, two    *)
(* rect sprites and two image sprites of the caller, rendered as an array  *)
(* (arcade_render_scene) or through a group (arcade_render_group).         *)
(***************************************************************************)
SurfaceWidth  == 3     \* state.width
SurfaceHeight == 2     \* state.height
MaxScene      == 2     \* entries of a rendered array, capacity of the group

Opaque(c)  == Pow2(24) + c      \* a sprite pixel with alpha byte 1
Clear(c)   == c                 \* a sprite pixel with alpha byte 0

\* state after arcade_init(w, h, title, bg): the surface filled with bg
InitWindow(w, h, bg) ==
    [pixels |-> [i \in 0..(w * h - 1) |-> bg], width |-> w, height |-> h,
     bg_color |-> bg]

\* an active rect at each position, a far one, and an inactive one on the surface
RenderRects ==
    { MkSprite(x, y, 2, 2, 0, 0, 7, 1) :
        x \in {-1, 0, 2, IntToFloat(SurfaceWidth + 10)}, y \in {-1, 0} }
      \cup { MkSprite(0, 0, 2, 2, 0, 0, 7, 0) }

\* an active image at each position, narrower and wider than its pixel buffer,
\* an inactive one and one without pixel buffer on the surface
RenderImages ==
    { MkImage(x, y, w, 2, 0, 0, 1, 2, 2, 1) :
        x \in {-1, 0, 2}, y \in {-1, 0}, w \in {1, 3} }
      \cup { MkImage(0, 0, 2, 2, 0, 0, 1, 2, 2, 0),
             MkImage(0, 0, 2, 2, 0, 0, NULL, 0, 0, 1) }

DefaultRect  == MkSprite(1, 0, 2, 2, 0, 0, 8, 1)
DefaultImage == MkImage(1, 0, 2, 2, 0, 0, 2, 2, 2, 1)

InitRender ==
    /\ \/ /\ sprites \in {[i \in 1..NSprites |->
                             IF i = 1 THEN s ELSE IF i = 2 THEN DefaultRect
                             ELSE IdleSprite] : s \in RenderRects}
          /\ images = [i \in 1..NSprites |->
                         IF i = 1 THEN MkImage(0, 0, 2, 2, 0, 0, 1, 2, 2, 1)
                         ELSE IF i = 2 THEN DefaultImage ELSE IdleImage]
       \/ /\ sprites = [i \in 1..NSprites |->
                          IF i = 1 THEN MkSprite(0, 0, 2, 2, 0, 0, 7, 1)
                          ELSE IF i = 2 THEN DefaultRect ELSE IdleSprite]
          /\ images \in {[i \in 1..NSprites |->
                            IF i = 1 THEN s ELSE IF i = 2 THEN DefaultImage
                            ELSE IdleImage] : s \in RenderImages}
    /\ state = InitWindow(SurfaceWidth, SurfaceHeight, 3)
    /\ pixbuf = [b \in {1, 2} |->
                   IF b = 1
                     THEN [i \in 0..3 |-> IF i = 1 THEN Clear(5) ELSE Opaque(10 + i)]
                     ELSE [i \in 0..3 |-> IF i = 2 THEN Clear(6) ELSE Opaque(20 + i)]]
    /\ heap = {1, 2}
    /\ scene = <<>>
    /\ before = <<>>
    /\ loaded = {}
    /\ InitStatics(1)
    /\ anim = EmptyAnim
    /\ nmoves = 0
    /\ group = NoGroup
    /\ appended = <<>>
    /\ oob = FALSE
    /\ cap0 = 0
    /\ gravity = 0
    /\ window_height = SurfaceHeight
    /\ op = "none"
    /\ argp = NULL
    /\ argq = NULL
    /\ ret = 0
    /\ ub = FALSE

\* the arrays the caller builds from its sprites, in three orders
SceneArrays ==
    { << <<sprites[1], SPRITE_COLOR>>, <<images[1], SPRITE_IMAGE>>,
         <<sprites[2], SPRITE_COLOR>>, <<images[2], SPRITE_IMAGE>> >>,
      << <<images[1], SPRITE_IMAGE>>, <<sprites[1], SPRITE_COLOR>>,
         <<images[2], SPRITE_IMAGE>>, <<sprites[2], SPRITE_COLOR>> >>,
      << <<sprites[2], SPRITE_COLOR>>, <<images[2], SPRITE_IMAGE>>,
         <<sprites[1], SPRITE_COLOR>>, <<images[1], SPRITE_IMAGE>> >> }

\* the first count entries of an array, count <= MaxScene
Scenes ==
    { SubSeq(arr, 1, n) : arr \in SceneArrays,
                          n \in { k \in 0..MaxScene : k <= 4 } }

RenderScene ==
    /\ ~ub
    /\ \E sc \in Scenes : arcade_render_scene(sc)

RenderInitGroup ==
    /\ ~ub
    /\ arcade_init_group(1, MaxScene)

\* the caller adds its first rect sprite, then its first image sprite
RenderAddRect ==
    /\ ~ub
    /\ Len(appended) = 0
    /\ arcade_add_sprite_to_group(1, sprites[1], SPRITE_COLOR)

RenderAddImage ==
    /\ ~ub
    /\ Len(appended) = 1
    /\ arcade_add_sprite_to_group(1, images[1], SPRITE_IMAGE)

RenderGroup ==
    /\ ~ub
    /\ \E gp \in {NULL, 1} : arcade_render_group(gp)

NextRender ==
    \/ RenderScene
    \/ RenderInitGroup
    \/ RenderAddRect
    \/ RenderAddImage
    \/ RenderGroup

SpecRender == InitRender /\ [][NextRender]_vars


(***************************************************************************)
(* Compositor properties                                                   *)
(***************************************************************************)
\* the last call was a render call that ran (arcade_render_scene, or
\* arcade_render_group on an initialised group)
Rendered ==
    \/ op = "arcade_render_scene"
    \/ op = "arcade_render_group" /\ argp # NULL /\ group.init

SurfaceIndices == 0..(state.width * state.height - 1)

\* the entries of the last rendered array that wrote surface element i
WritersOf(i) ==
    { k \in 1..Len(scene) :
        \E w \in draw_writes(state, pixbuf, scene[k][1], scene[k][2]) : w[1] = i }

\* the value entry k wrote to surface element i
WrittenBy(k, i) ==
    (CHOOSE w \in draw_writes(state, pixbuf, scene[k][1], scene[k][2]) : w[1] = i)[2]

Highest(S) == CHOOSE k \in S : \A j \in S : j <= k

\* C12: after a render call a surface pixel no entry wrote holds bg_color,
\* whatever it held before, and a pixel several entries wrote holds the value
\* written by the one with the highest array index.
C12_ClearAndLayer ==
    Rendered =>
        /\ DOMAIN state.pixels = SurfaceIndices
        /\ \A i \in SurfaceIndices :
             IF WritersOf(i) = {}
               THEN state.pixels[i] = state.bg_color
               ELSE state.pixels[i] = WrittenBy(Highest(WritersOf(i)), i)

\* a frame of two entries drawn over a dirty surface: one pixel was written by
\* both entries with different values and holds the second one's, another was
\* not bg before the call, was written by no entry and is bg now
C12_Witness ==
    /\ Rendered /\ ~ub
    /\ Len(scene) = 2
    /\ \E i \in SurfaceIndices :
         /\ WritersOf(i) = {1, 2}
         /\ WrittenBy(1, i) # WrittenBy(2, i)
         /\ state.pixels[i] = WrittenBy(2, i)
    /\ \E i \in SurfaceIndices :
         /\ WritersOf(i) = {}
         /\ before[i] # state.bg_color
         /\ state.pixels[i] = state.bg_color

\* the surface the last render call leaves when its last array entry is left out
WithoutLast ==
    draw_all(state, pixbuf, SubSeq(scene, 1, Len(scene) - 1), 1,
             clear_surface(state))

\* the last entry of the last rendered array is an active rect sprite
LastIsRect ==
    /\ Rendered
    /\ Len(scene) >= 1
    /\ scene[Len(scene)][2] = SPRITE_COLOR
    /\ scene[Len(scene)][1].active # 0

\* C13: the pixels (px, py) an active rect entry sets to its color are exactly
\* those with x <= px < x + width, y <= py < y + height inside the surface;
\* every other pixel is as the entries before it left it, and no write lands
\* outside the surface buffer.
C13_RectClipped ==
    LastIsRect =>
        LET s == scene[Len(scene)][1] IN
        /\ ~ub
        /\ DOMAIN state.pixels = SurfaceIndices
        /\ \A px \in 0..(state.width - 1), py \in 0..(state.height - 1) :
             LET i == py * state.width + px IN
             IF /\ s.x <= px /\ px < s.x + s.width
                /\ s.y <= py /\ py < s.y + s.height
               THEN state.pixels[i] = s.color
               ELSE state.pixels[i] = WithoutLast[i]

\* a rect hanging off the top left corner was drawn: its part inside the
\* surface has its color, the pixel right of it has not
C13_Witness ==
    /\ LastIsRect /\ ~ub
    /\ scene[Len(scene)][1].x < 0 /\ scene[Len(scene)][1].y < 0
    /\ scene[Len(scene)][1].x + scene[Len(scene)][1].width = 1
    /\ state.pixels[0] = scene[Len(scene)][1].color
    /\ state.pixels[1] # scene[Len(scene)][1].color

\* the last entry of the last rendered array is an active image sprite with a
\* pixel buffer
LastIsImage ==
    /\ Rendered
    /\ Len(scene) >= 1
    /\ scene[Len(scene)][2] = SPRITE_IMAGE
    /\ scene[Len(scene)][1].active # 0
    /\ scene[Len(scene)][1].pixels # NULL

\* C14: destination (x + sx, y + sy) inside the surface receives source pixel
\* (sx, sy) exactly when 0 <= sx < min(width, image_width), 0 <= sy <
\* min(height, image_height) and the source pixel's alpha byte is nonzero;
\* every other pixel is as the entries before the sprite left it.
C14_ImageBlit ==
    LastIsImage =>
        LET s   == scene[Len(scene)][1]
            buf == pixbuf[s.pixels]
        IN
        /\ ~ub
        /\ \A px \in 0..(state.width - 1), py \in 0..(state.height - 1) :
             LET i  == py * state.width + px
                 sx == px - s.x
                 sy == py - s.y
             IN
             IF /\ 0 <= sx /\ sx < Min(s.width, s.image_width)
                /\ 0 <= sy /\ sy < Min(s.height, s.image_height)
                /\ AlphaOf(buf[sy * s.image_width + sx]) > 0
               THEN state.pixels[i] = buf[sy * s.image_width + sx]
               ELSE state.pixels[i] = WithoutLast[i]

\* an image hanging off the top left corner was drawn over a rect: surface
\* pixel (0, 0) holds source pixel (1, 1)
C14_Witness ==
    /\ LastIsImage /\ ~ub
    /\ Len(scene) = 2
    /\ scene[2][1].x = -1 /\ scene[2][1].y = -1
    /\ state.pixels[0] = pixbuf[scene[2][1].pixels][scene[2][1].image_width + 1]
    /\ state.pixels[0] # WithoutLast[0]

\* entry e of a rendered array is not to be drawn
Invisible(e) ==
    \/ e[1].active = 0
    \/ e[2] = SPRITE_IMAGE /\ e[1].pixels = NULL

\* C15: a render call of an array whose entries all have active = 0 or, for
\* image entries, pixels = NULL leaves every surface pixel equal to bg_color.
C15_InvisibleNotDrawn ==
    (Rendered /\ \A k \in 1..Len(scene) : Invisible(scene[k])) =>
        \A i \in SurfaceIndices : state.pixels[i] = state.bg_color

\* an active image sprite without a pixel buffer, its box on the surface, was
\* rendered over a surface that held sprite pixels: the surface is all bg
C15_Witness ==
    /\ Rendered /\ ~ub
    /\ Len(scene) >= 1
    /\ \A k \in 1..Len(scene) : Invisible(scene[k])
    /\ \E k \in 1..Len(scene) :
         /\ scene[k][2] = SPRITE_IMAGE
         /\ scene[k][1].active # 0
         /\ scene[k][1].x = 0 /\ scene[k][1].y = 0
    /\ \E i \in SurfaceIndices : before[i] # state.bg_color
    /\ \A i \in SurfaceIndices : state.pixels[i] = state.bg_color


(***************************************************************************)
(* Image sprites: the caller creates its image sprites from files that     *)
(* load or fail to, frees them, and asks the collision oracle about them   *)
(* and about a two-frame animated sprite.                                  *)
(***************************************************************************)
CreateImage ==
    /\ ~ub
    /\ \E p \in 1..2, x \in {0, 1}, res \in LoadResults :
         /\ images[p].pixels = NULL
         /\ arcade_create_image_sprite(p, x, x, 2, 2, res)

FreeImage ==
    /\ ~ub
    /\ \E p \in 0..2 : arcade_free_image_sprite(p)

CreateTwoFrames ==
    /\ ~ub
    /\ arcade_create_animated_sprite(0, 0, 2, 2, [i \in 1..2 |-> "ok"], 2, 1)

CheckCreatedCollision ==
    /\ ~ub
    /\ \E a \in 1..2, b \in 1..2 : arcade_check_image_collision(a, b)

CheckCreatedAnimatedCollision ==
    /\ ~ub
    /\ anim.frames_ptr # NULL
    /\ \E b \in 1..2 : arcade_check_animated_collision(1, b)

NextCreate ==
    \/ CreateImage
    \/ FreeImage
    \/ CreateTwoFrames
    \/ CheckCreatedCollision
    \/ CheckCreatedAnimatedCollision

SpecCreate == InitAnim /\ [][NextCreate]_vars

\* C16: arcade_check_image_collision and arcade_check_animated_collision
\* return 0 whenever an image sprite involved has pixels = NULL, whatever its
\* active flag, position and size.
C16_NullPixelsNoCollision ==
    /\ (op = "arcade_check_image_collision" /\ argp # NULL /\ argq # NULL
          /\ (images[argp].pixels = NULL \/ images[argq].pixels = NULL))
        => ret = 0
    /\ (op = "arcade_check_animated_collision" /\ argp # NULL /\ argq # NULL
          /\ anim.frames_ptr # NULL /\ images[argq].pixels = NULL)
        => ret = 0

\* C17: the sprite arcade_create_image_sprite returns has active = 1 and
\* pixels # NULL when the image was loaded, and active = 0 and pixels = NULL
\* when loading failed.
C17_CreateResult ==
    op = "arcade_create_image_sprite" =>
        IF loaded # {}
          THEN images[argp].active = 1 /\ images[argp].pixels # NULL
          ELSE images[argp].active = 0 /\ images[argp].pixels = NULL


(***************************************************************************)
(* Construction of the animated sprite (checked under SpecAnim)            *)
(***************************************************************************)
\* C18: right after a successful arcade_create_animated_sprite with
\* frame_count >= 2, frames[0].active = 1 and frames[i].active = 0 for i >= 1.
C18_OnlyFirstActive ==
    (op = "arcade_create_animated_sprite" /\ Created /\ anim.frame_count >= 2)
        => /\ anim.frames[1].active = 1
           /\ \A i \in 2..Len(anim.frames) : anim.frames[i].active = 0

\* C19: a call of arcade_create_animated_sprite in which a frame fails to load
\* returns the empty sprite and leaves allocated no block it allocated: the
\* heap is as before the call and holds none of the pixel buffers loaded; a
\* call that succeeds returns frame_count frames, each with its pixel buffer.
C19_FailureReleasesAll ==
    [][ (op' = "arcade_create_animated_sprite" /\ ~ub') =>
          IF anim'.frames_ptr = NULL
            THEN /\ anim' = EmptyAnim
                 /\ heap' = heap
                 /\ loaded' \cap heap' = {}
            ELSE /\ Len(anim'.frames) = anim'.frame_count
                 /\ anim'.frames_ptr \in heap'
                 /\ \A i \in 1..Len(anim'.frames) :
                      anim'.frames[i].pixels \in heap' \cap loaded'
      ]_vars

\* the third frame failed to load after two frames were loaded: the sprite is
\* empty and both pixel buffers are released
C19_Witness ==
    /\ op = "arcade_create_animated_sprite"
    /\ anim = EmptyAnim
    /\ Cardinality(loaded) = 2
    /\ loaded \cap heap = {}
    /\ heap = {}


(***************************************************************************)
(* The animated sprite in the collision oracle (checked under SpecCollide) *)
(***************************************************************************)
\* C20: when frames[0].active and other.active are nonzero,
\* arcade_check_animated_collision returns the AABB overlap of the box of
\* frames[current_frame] with other, whatever the current frame's own flag.
C20_CurrentFrameBox ==
    (op = "arcade_check_animated_collision" /\ argp # NULL /\ argq # NULL
       /\ anim.frames_ptr # NULL
       /\ anim.frames[1].active # 0 /\ images[argq].active # 0)
      => (ret # 0 <=> Overlap(anim.frames[anim.current_frame + 1], images[argq]))


(***************************************************************************)
(* Frames in the group: the caller creates an animated sprite from files   *)
(* that load or fail to, moves it, hides it, frees it, and adds its        *)
(* current frame to a group.                                               *)
(***************************************************************************)
MaxEntries    == 2     \* capacity of the group; one add more is followed
MaxFrameMoves == 2     \* live moves followed after a creation

FramesCreateAnimated ==
    /\ ~ub
    /\ anim.frames_ptr = NULL
    /\ \E results \in [1..2 -> {"ok", "load_fail"}] :
         arcade_create_animated_sprite(1, 0, 2, 2, results, 2, 1)

FramesFreeAnimated ==
    /\ ~ub
    /\ arcade_free_animated_sprite(1)

FramesMoveAnimated ==
    /\ ~ub
    /\ nmoves < MaxFrameMoves
    /\ arcade_move_animated_sprite(1, 0, 6)

FramesAssignActive ==
    /\ ~ub
    /\ \E a \in {0, 1} : SetFrameField(1, "active", a)

FramesCheckAnimated ==
    /\ ~ub
    /\ arcade_check_animated_collision(1, 1)

FramesInitGroup ==
    /\ ~ub
    /\ arcade_init_group(1, MaxEntries)

FramesAddAnimated ==
    /\ ~ub
    /\ Len(appended) <= MaxEntries
    /\ \E an \in {NULL, 1} : arcade_add_animated_to_group(1, an)

NextFrames ==
    \/ FramesCreateAnimated
    \/ FramesFreeAnimated
    \/ FramesMoveAnimated
    \/ FramesAssignActive
    \/ FramesCheckAnimated
    \/ FramesInitGroup
    \/ FramesAddAnimated

SpecFrames == InitAnim /\ [][NextFrames]_vars

\* C21: arcade_add_animated_to_group on an initialised group and an animated
\* sprite that has frames appends frames[current_frame], by value and with
\* type SPRITE_IMAGE, when frames[0].active is nonzero and the group has room;
\* it leaves the count and the entries of the group unchanged when
\* frames[0].active is 0, when anim is NULL and when the group is full.
C21_AddCurrentFrame ==
    [][ (op' = "arcade_add_animated_to_group" /\ argp' # NULL /\ group.init
           /\ (argq' = NULL \/ anim.frames_ptr # NULL))
        => IF argq' # NULL /\ anim.frames[1].active # 0
                /\ group.count < group.capacity
             THEN /\ group'.count = group.count + 1
                  /\ group'.sprites[group.count + 1] =
                       anim.frames[anim.current_frame + 1]
                  /\ group'.types[group.count + 1] = SPRITE_IMAGE
                  /\ \A i \in 1..group.count :
                       /\ group'.sprites[i] = group.sprites[i]
                       /\ group'.types[i] = group.types[i]
                  /\ anim' = anim
             ELSE /\ group'.count = group.count
                  /\ group'.sprites = group.sprites
                  /\ group'.types = group.types
      ]_vars

\* the second frame was the current one when the animated sprite was added:
\* the last entry of the group is a copy of it, and not of the first frame
C21_Witness ==
    /\ op = "arcade_add_animated_to_group" /\ argq = 1
    /\ anim.frames_ptr # NULL /\ anim.current_frame = 1
    /\ group.init /\ group.count >= 1
    /\ group.types[group.count] = SPRITE_IMAGE
    /\ group.sprites[group.count] = anim.frames[2]
    /\ group.sprites[group.count] # anim.frames[1]


(***************************************************************************)
(* Freeing an image sprite (checked under SpecCreate)                      *)
(***************************************************************************)
\* C22: after arcade_free_image_sprite on a non-NULL sprite the sprite has
\* pixels = NULL, image_width = 0, image_height = 0 and active = 0; on a NULL
\* pointer and on a sprite freed before, the call changes no sprite and
\* releases no block.
C22_FreeClears ==
    [][ op' = "arcade_free_image_sprite" =>
          /\ argp' # NULL =>
               /\ images'[argp'].pixels = NULL
               /\ images'[argp'].image_width = 0
               /\ images'[argp'].image_height = 0
               /\ images'[argp'].active = 0
          /\ (argp' = NULL \/ images[argp'].pixels = NULL) =>
               /\ images' = images
               /\ heap' = heap
               /\ pixbuf' = pixbuf
      ]_vars


(***************************************************************************)
(* Lifetimes: the caller owns a loaded image sprite, initialises a group,  *)
(* adds copies of the sprite to it, renders the group, and frees the       *)
(* sprite and the group in any order.                                      *)
(***************************************************************************)
InitLife ==
    /\ sprites = [i \in 1..NSprites |-> IdleSprite]
    /\ images = [i \in 1..NSprites |->
                   IF i = 1 THEN MkImage(0, 0, 2, 2, 0, 0, 1, 2, 2, 1)
                   ELSE IdleImage]
    /\ state = InitWindow(SurfaceWidth, SurfaceHeight, 3)
    /\ pixbuf = [b \in {1} |-> FileImage(2, 2)]
    /\ heap = {1}
    /\ scene = <<>>
    /\ before = <<>>
    /\ loaded = {}
    /\ InitStatics(1)
    /\ anim = EmptyAnim
    /\ nmoves = 0
    /\ group = NoGroup
    /\ appended = <<>>
    /\ oob = FALSE
    /\ cap0 = 0
    /\ gravity = 0
    /\ window_height = SurfaceHeight
    /\ op = "none"
    /\ argp = NULL
    /\ argq = NULL
    /\ ret = 0
    /\ ub = FALSE

LifeFreeImage ==
    /\ ~ub
    /\ \E p \in {NULL, 1} : arcade_free_image_sprite(p)

LifeInitGroup ==
    /\ ~ub
    /\ arcade_init_group(1, MaxEntries)

LifeAddImage ==
    /\ ~ub
    /\ Len(appended) <= MaxEntries
    /\ arcade_add_sprite_to_group(1, images[1], SPRITE_IMAGE)

LifeRenderGroup ==
    /\ ~ub
    /\ arcade_render_group(1)

LifeFreeGroup ==
    /\ ~ub
    /\ arcade_free_group(1)

NextLife ==
    \/ LifeFreeImage
    \/ LifeInitGroup
    \/ LifeAddImage
    \/ LifeRenderGroup
    \/ LifeFreeGroup

SpecLife == InitLife /\ [][NextLife]_vars

\* the arrays of the group were released by arcade_free_group
Freed(g) ==
    /\ g.init
    /\ g.sprites_ptr # NULL /\ g.sprites_ptr \notin heap
    /\ g.types_ptr # NULL /\ g.types_ptr \notin heap

\* C23: arcade_free_group on an initialised group sets count = 0 and
\* capacity = 0 and releases the two arrays of the group and no other block:
\* every pixel buffer stays allocated with its content and no sprite of the
\* caller changes; a later add to the freed group changes nothing.
C23_FreeGroupOnly ==
    [][ /\ (op' = "arcade_free_group" /\ ~ub') =>
             /\ group'.count = 0 /\ group'.capacity = 0
             /\ heap' = heap \ {group.sprites_ptr, group.types_ptr}
             /\ pixbuf' = pixbuf
             /\ images' = images /\ sprites' = sprites /\ anim' = anim
        /\ (op' \in {"arcade_add_sprite_to_group", "arcade_add_animated_to_group"}
              /\ argp' # NULL /\ Freed(group)) =>
             /\ group' = group
             /\ heap' = heap
             /\ ub' = ub
      ]_vars

\* an image sprite was added, the group was freed, and one more add was
\* ignored: the sprite still has its pixel buffer
C23_Witness ==
    /\ op = "arcade_add_sprite_to_group"
    /\ Freed(group) /\ group.count = 0 /\ group.capacity = 0
    /\ Len(appended) >= 2
    /\ appended[1][2] = SPRITE_IMAGE
    /\ appended[1][1].pixels # NULL
    /\ appended[1][1].pixels = images[1].pixels
    /\ images[1].pixels \in heap
    /\ images[1].pixels \in DOMAIN pixbuf


\* C29: arcade_render_group draws no image entry from a pixel buffer that was
\* released: every active image entry with a pixel buffer that the call drew
\* points to a block that is still allocated.
C29_NoReleasedRead ==
    (op = "arcade_render_group" /\ argp # NULL /\ group.init) =>
        \A i \in 1..Len(scene) :
            (scene[i][2] = SPRITE_IMAGE /\ scene[i][1].active # 0
               /\ scene[i][1].pixels # NULL)
              => scene[i][1].pixels \in heap


(***************************************************************************)
(* The animated sprite without frames (checked under SpecFrames)           *)
(***************************************************************************)
\* C30: on an animated sprite with frames = NULL and frame_count = 0,
\* arcade_move_animated_sprite, arcade_add_animated_to_group and
\* arcade_free_animated_sprite change nothing and
\* arcade_check_animated_collision returns 0, and none of them reads the
\* frames array.
C30_EmptyIsInert ==
    [][ (/\ anim.frames_ptr = NULL /\ anim.frame_count = 0
         /\ \/ op' \in {"arcade_move_animated_sprite",
                        "arcade_free_animated_sprite",
                        "arcade_check_animated_collision"} /\ argp' = 1
            \/ op' = "arcade_add_animated_to_group" /\ argq' = 1)
        => /\ ub' = ub
           /\ anim' = anim /\ group' = group /\ heap' = heap
           /\ op' = "arcade_check_animated_collision" => ret' = 0
      ]_vars


(***************************************************************************)
(* NULL pointers (checked under SpecGroup)                                 *)
(***************************************************************************)
\* C24: a sprite or group operation called with a NULL sprite, animated
\* sprite or group pointer dereferences nothing and changes no sprite, no
\* group, no memory block and no pixel of the surface.
C24_NullIsNoOp ==
    [][ (\/ /\ op' \in {"arcade_move_sprite", "arcade_move_image_sprite",
                        "arcade_move_animated_sprite",
                        "arcade_free_image_sprite",
                        "arcade_free_animated_sprite", "arcade_init_group",
                        "arcade_add_sprite_to_group", "arcade_render_group",
                        "arcade_free_group"}
            /\ argp' = NULL
         \/ /\ op' \in {"arcade_check_collision", "arcade_check_image_collision",
                        "arcade_check_animated_collision",
                        "arcade_add_animated_to_group"}
            /\ (argp' = NULL \/ argq' = NULL))
        => /\ ub' = ub
           /\ UNCHANGED <<sprites, images, anim, group, heap, pixbuf, state>>
      ]_vars


(***************************************************************************)
(* Moves of hidden and absent sprites: the caller owns a rect sprite and   *)
(* an image sprite, each shown or hidden, creates an animated sprite,      *)
(* hides and shows its frames, and moves all three, or nothing (NULL).     *)
(***************************************************************************)
InitMove ==
    /\ \E a \in {0, 1}, b \in {0, 1} :
         /\ sprites = [i \in 1..NSprites |->
                         IF i = 1 THEN MkSprite(1, 0, 2, 2, 0, 0, 1, a)
                         ELSE IdleSprite]
         /\ images = [i \in 1..NSprites |->
                        IF i = 1 THEN MkImage(1, 0, 2, 2, 0, 0, 1, 2, 2, b)
                        ELSE IdleImage]
    /\ heap = {1}
    /\ gravity = 0
    /\ window_height = 6
    /\ InitRest

MoveCreateAnimated ==
    /\ ~ub
    /\ arcade_create_animated_sprite(1, 0, 2, 2, [i \in 1..2 |-> "ok"], 2, 1)

MoveAssignActive ==
    /\ ~ub
    /\ \E i \in 1..2, a \in {0, 1} : SetFrameField(i, "active", a)

MoveAnySprite ==
    /\ ~ub
    /\ sprites[1].y < MaxY
    /\ \E p \in {NULL, 1} : arcade_move_sprite(p, 1, 6)

MoveAnyImage ==
    /\ ~ub
    /\ images[1].y < MaxY
    /\ \E p \in {NULL, 1} : arcade_move_image_sprite(p, 1, 6)

MoveAnyAnimated ==
    /\ ~ub
    /\ anim.frames_ptr # NULL
    /\ anim.frames[1].y < MaxY
    /\ \E an \in {NULL, 1} : arcade_move_animated_sprite(an, 1, 6)

NextMove ==
    \/ MoveCreateAnimated
    \/ MoveAssignActive
    \/ MoveAnySprite
    \/ MoveAnyImage
    \/ MoveAnyAnimated

SpecMove == InitMove /\ [][NextMove]_vars

\* C25: arcade_move_sprite and arcade_move_image_sprite on NULL or on a sprite
\* with active = 0, and arcade_move_animated_sprite on NULL or on an animated
\* sprite whose frames[0].active is 0, change no field of any sprite and of
\* any frame, nor current_frame, nor frame_counter.
C25_HiddenStaysPut ==
    [][ (\/ /\ op' = "arcade_move_sprite"
            /\ (argp' = NULL \/ sprites[argp'].active = 0)
         \/ /\ op' = "arcade_move_image_sprite"
            /\ (argp' = NULL \/ images[argp'].active = 0)
         \/ /\ op' = "arcade_move_animated_sprite"
            /\ \/ argp' = NULL
               \/ anim.frames_ptr # NULL /\ anim.frames[1].active = 0)
        => /\ sprites' = sprites
           /\ images' = images
           /\ anim' = anim
      ]_vars

\* the animated sprite was moved while frames[0].active was 0 and the current
\* frame, the second, was active and falling: it stayed where it was
C25_Witness ==
    /\ op = "arcade_move_animated_sprite" /\ argp = 1
    /\ anim.frames_ptr # NULL
    /\ anim.frames[1].active = 0
    /\ anim.current_frame = 1
    /\ anim.frames[2].active = 1
    /\ anim.frames[2].vy > 0
    /\ nmoves = 1


(***************************************************************************)
(* Events, keys and the frame counter (the X11 build; on Windows the same  *)
(* assignments are made by the window procedure, called from               *)
(* arcade_update).  An event is a key press or release with its keysym,    *)
(* the window manager's close request (the ClientMessage carrying          *)
(* WM_DELETE_WINDOW), or any other event.                                  *)
(***************************************************************************)
a_space == 32

KeyPress(keysym)   == [type |-> "KeyPress", keysym |-> keysym]
KeyRelease(keysym) == [type |-> "KeyRelease", keysym |-> keysym]
CloseRequest       == [type |-> "ClientMessage", keysym |-> 0]
OtherEvent         == [type |-> "Expose", keysym |-> 0]

\* `keysym & 0xFF`, the index into key_states and last_key_states
KeyIndex(keysym) == keysym % 256

\* the event loop of arcade_update on the queue q with key states ks: events
\* are taken in order up to and including the first close request
RECURSIVE process_events(_, _)
process_events(q, ks) ==
    IF q = <<>>
      THEN [key_states |-> ks, closed |-> FALSE, pending |-> q]
    ELSE IF Head(q).type = "ClientMessage"
      THEN [key_states |-> ks, closed |-> TRUE, pending |-> Tail(q)]
    ELSE IF Head(q).type = "KeyPress"
      THEN process_events(Tail(q),
                          [ks EXCEPT ![KeyIndex(Head(q).keysym)] = 1])
    ELSE IF Head(q).type = "KeyRelease"
      THEN process_events(Tail(q),
                          [ks EXCEPT ![KeyIndex(Head(q).keysym)] = 0])
    ELSE process_events(Tail(q), ks)

\* the window system delivers an event
XSendEvent(e) ==
    /\ pending' = Append(pending, e)
    /\ op' = "event"
    /\ UNCHANGED <<key_states, last_key_states, global_frame_counter, running,
                   key_val, text, blink_interval, drawn, prev_key_states>>
    /\ UNCHANGED <<kinVars, animVars, groupVars, memVars, gfxVars, loaded,
                   argp, argq, gravity, window_height, ret>>

\* arcade_update that counts the frame before it looks at the events
arcade_update_count_first ==
    /\ LET r == process_events(pending, key_states)
       IN  /\ key_states' = r.key_states
           /\ pending' = r.pending
           /\ running' = IF r.closed THEN 0 ELSE running
           /\ global_frame_counter' = global_frame_counter + 1
           /\ ret' = IF r.closed THEN 0 ELSE 1
           /\ ub' = (ub \/ global_frame_counter = 2147483647)
    /\ prev_key_states' = key_states
    /\ op' = "arcade_update"
    /\ UNCHANGED <<last_key_states, key_val, text, blink_interval, drawn>>
    /\ UNCHANGED <<kinVars, animVars, groupVars, heap, gfxVars, loaded,
                   argp, argq, gravity, window_height>>

\* arcade_update(): the pending events are processed; a close request clears
\* state.running and returns 0 at once, otherwise the frame is counted and 1
\* returned.  global_frame_counter is an int: counting past INT_MAX is
\* undefined behaviour.
arcade_update ==
    /\ LET r == process_events(pending, key_states)
       IN  /\ key_states' = r.key_states
           /\ pending' = r.pending
           /\ running' = IF r.closed THEN 0 ELSE running
           /\ global_frame_counter' = IF r.closed THEN global_frame_counter
                                      ELSE global_frame_counter + 1
           /\ ret' = IF r.closed THEN 0 ELSE 1
           /\ ub' = (ub \/ (~r.closed /\ global_frame_counter = 2147483647))
    /\ prev_key_states' = key_states
    /\ op' = "arcade_update"
    /\ UNCHANGED <<last_key_states, key_val, text, blink_interval, drawn>>
    /\ UNCHANGED <<kinVars, animVars, groupVars, heap, gfxVars, loaded,
                   argp, argq, gravity, window_height>>

arcade_running ==
    /\ ret' = running
    /\ op' = "arcade_running"
    /\ UNCHANGED inputVars
    /\ UNCHANGED <<kinVars, animVars, groupVars, memVars, gfxVars, loaded,
                   argp, argq, gravity, window_height>>

arcade_set_running(value) ==
    /\ running' = value
    /\ op' = "arcade_set_running"
    /\ UNCHANGED <<key_states, last_key_states, global_frame_counter, pending,
                   key_val, text, blink_interval, drawn, prev_key_states>>
    /\ UNCHANGED <<kinVars, animVars, groupVars, memVars, gfxVars, loaded,
                   argp, argq, gravity, window_height, ret>>

\* arcade_key_pressed_once(key_val): the state of the key is compared with
\* the state remembered by the previous call for the same key, and remembered
arcade_key_pressed_once(k) ==
    /\ LET key     == KeyIndex(k)
           current == key_states[key]
           last    == last_key_states[key]
       IN  /\ last_key_states' = [last_key_states EXCEPT ![key] = current]
           /\ ret' = IF current = 1 /\ last = 0 THEN 2 ELSE 0
    /\ key_val' = k
    /\ op' = "arcade_key_pressed_once"
    /\ UNCHANGED <<key_states, global_frame_counter, running, pending, text,
                   blink_interval, drawn, prev_key_states>>
    /\ UNCHANGED <<kinVars, animVars, groupVars, memVars, gfxVars, loaded,
                   argp, argq, gravity, window_height>>

\* a % b on ints as C computes it: the quotient is truncated towards zero, so
\* the result has the sign of a
CRem(a, b) == IF a >= 0 THEN a % Abs(b) ELSE -((-a) % Abs(b))

\* the test of arcade_render_text_centered_blink that is also true at the
\* end of the first half of the cycle
blink_on_inclusive(counter, interval) ==
    CRem(counter, 2 * interval) <= interval

\* the test `(global_frame_counter % (2 * blink_interval)) < blink_interval`
blink_on(counter, interval) ==
    CRem(counter, 2 * interval) < interval

\* arcade_render_text_centered_blink(t, y, color, interval), t NULL or a
\* string: drawn tells whether arcade_render_text_centered was called.  A
\* zero interval divides by zero and an interval whose double is no int
\* overflows: undefined behaviour.
arcade_render_text_centered_blink(t, interval) ==
    /\ IF t = NULL
         THEN drawn' = FALSE /\ ub' = ub
       ELSE IF interval = 0 \/ 2 * interval > 2147483647
                            \/ 2 * interval < -2147483647 - 1
         THEN drawn' \in BOOLEAN /\ ub' = TRUE
       ELSE /\ drawn' = blink_on(global_frame_counter, interval)
            /\ ub' = ub
    /\ text' = t
    /\ blink_interval' = interval
    /\ op' = "arcade_render_text_centered_blink"
    /\ UNCHANGED <<key_states, last_key_states, global_frame_counter, running,
                   pending, key_val, prev_key_states>>
    /\ UNCHANGED <<kinVars, animVars, groupVars, heap, gfxVars, loaded,
                   argp, argq, gravity, window_height, ret>>

(***************************************************************************)
(* The game loop: events arrive, the caller processes frames, polls a key  *)
(* and asks for and sets the running flag; and the caller processes frames *)
(* and draws blinking text.                                                *)
(***************************************************************************)
MaxTicks   == 6     \* frames counted
MaxPending == 2     \* events waiting in the queue
MaxBlink   == 3     \* largest blink_interval passed

InitLoop ==
    /\ sprites = [i \in 1..NSprites |-> IdleSprite]
    /\ images = [i \in 1..NSprites |-> IdleImage]
    /\ state = InitWindow(SurfaceWidth, SurfaceHeight, 3)
    /\ pixbuf = <<>>
    /\ heap = {}
    /\ scene = <<>>
    /\ before = <<>>
    /\ loaded = {}
    /\ InitStatics(1)
    /\ anim = EmptyAnim
    /\ nmoves = 0
    /\ group = NoGroup
    /\ appended = <<>>
    /\ oob = FALSE
    /\ cap0 = 0
    /\ gravity = 0
    /\ window_height = SurfaceHeight
    /\ op = "none"
    /\ argp = NULL
    /\ argq = NULL
    /\ ret = 0
    /\ ub = FALSE

Events == {KeyPress(a_space), KeyRelease(a_space), CloseRequest, OtherEvent}

Event ==
    /\ ~ub
    /\ Len(pending) < MaxPending
    /\ \E e \in Events : XSendEvent(e)

Update ==
    /\ ~ub
    /\ global_frame_counter < MaxTicks
    /\ arcade_update

Running ==
    /\ ~ub
    /\ arcade_running

SetRunning ==
    /\ ~ub
    /\ \E value \in {0, 1} : arcade_set_running(value)

KeyPressedOnce ==
    /\ ~ub
    /\ arcade_key_pressed_once(a_space)

BlinkText ==
    /\ ~ub
    /\ \E t \in {NULL, 1}, interval \in (-1)..MaxBlink :
         arcade_render_text_centered_blink(t, interval)

NextLoop ==
    \/ Event
    \/ Update
    \/ Running
    \/ SetRunning
    \/ KeyPressedOnce

SpecLoop == InitLoop /\ [][NextLoop]_vars

\* the caller processes frames and draws blinking text
NextBlink ==
    \/ Update
    \/ BlinkText

SpecBlink == InitLoop /\ [][NextBlink]_vars

\* C26: arcade_render_text_centered_blink with a text and blink_interval
\* k >= 1 calls the centered draw exactly when the frame counter lies in the
\* first k frames of a cycle of 2k frames, the cycles starting at frame 0:
\* drawn for k consecutive frames, then suppressed for k.
C26_BlinkPhase ==
    (op = "arcade_render_text_centered_blink" /\ text # NULL
       /\ blink_interval >= 1)
      => (drawn <=>
            \E c \in 0..global_frame_counter :
                /\ 2 * blink_interval * c <= global_frame_counter
                /\ global_frame_counter < 2 * blink_interval * c + blink_interval)

\* the text is drawn in frame 5 with blink_interval 2: the second frame of
\* the on-phase of the second cycle
C26_Witness ==
    /\ op = "arcade_render_text_centered_blink" /\ text # NULL
    /\ blink_interval = 2
    /\ global_frame_counter = 5
    /\ drawn

\* C27: arcade_key_pressed_once(k) returns 2 exactly when key k is down in
\* the current frame and was not down in the previous frame, frames being
\* delimited by the calls of arcade_update, and 0 otherwise.
C27_OncePerPress ==
    op = "arcade_key_pressed_once" =>
        /\ ret \in {0, 2}
        /\ ret = 2 <=> (/\ key_states[KeyIndex(key_val)] = 1
                        /\ prev_key_states[KeyIndex(key_val)] = 0)

\* the queue holds a close request
HasClose(q) == \E i \in 1..Len(q) : q[i].type = "ClientMessage"

\* C28: the frame counter never decreases; an arcade_update that returns 1
\* adds exactly 1 to it; an arcade_update that meets a close request returns
\* 0, sets the running flag to 0 and leaves the counter as it is; arcade_running
\* returns the flag, which leaves 0 only by arcade_set_running.
C28_FrameCounter ==
    [][ /\ global_frame_counter' >= global_frame_counter
        /\ op' # "arcade_update" => global_frame_counter' = global_frame_counter
        /\ (op' = "arcade_update" /\ ret' = 1) =>
             global_frame_counter' = global_frame_counter + 1
        /\ (op' = "arcade_update" /\ HasClose(pending)) =>
             /\ ret' = 0
             /\ running' = 0
             /\ global_frame_counter' = global_frame_counter
        /\ (op' = "arcade_update" /\ ~HasClose(pending)) => ret' = 1
        /\ op' = "arcade_running" => ret' = running
        /\ (running = 0 /\ running' # 0) => op' = "arcade_set_running"
      ]_vars

\* frames were counted, then an update met the close request: it returned 0,
\* the flag is 0 and the counter is where it was
C28_Witness ==
    /\ op = "arcade_update" /\ ret = 0
    /\ running = 0
    /\ global_frame_counter >= 2

====
